---- MODULE Spec2Model ----
(***************************************************************************)
(* A model of the EDGAR client of the SEC document dashboard                *)
(* (src/edgar_client.py): the rate limiter, the operations that issue      *)
(* outbound requests (get_company_filings, get_recent_filings,             *)
(* get_filing_document, search_company) and the Form 4 parser.             *)
(*                                                                         *)
(* Strings whose characters the code inspects (file names, identifiers,   *)
(* accession numbers) are sequences of one-character strings, so that      *)
(* endswith, lower, "in", replace and zfill are computed as the code       *)
(* computes them.  Time is counted in ticks of 50 ms.                      *)
(***************************************************************************)
EXTENDS Integers, Sequences, FiniteSets, TLC

VARIABLES
    now,                \* the wall clock, time.time(), in ticks
    last_request_time,  \* EDGARClient.last_request_time
    rl_pc,              \* per thread: position inside _rate_limit
    time_since,         \* per thread: the local time_since_last_request
    wake,               \* per thread: the instant a running time.sleep ends
    n_calls,            \* history: _rate_limit calls that have returned
    first_call,         \* history: the instant the first _rate_limit call began
    prev_write,         \* history: the value last_request_time had before the latest write
    seen_last,          \* history, per thread: the last_request_time that line 26 read
    writer_saw,         \* history: the last_request_time that the latest writer had read
    op,                 \* the client operation this behaviour calls
    cik,                \* argument cik
    accession_number,   \* argument accession_number
    form_type,          \* argument form_type
    form_types,         \* argument form_types
    days_back,          \* argument days_back
    company_name,       \* argument company_name
    dt_now,             \* the instant datetime.now() returns: a day and the seconds into it
    pc,                 \* position inside the running operation, "idle" between calls
    doc,                \* the locals form4_file / main_doc
    k,                  \* index of the loop over patterns
    outcome,            \* what the latest call returned or raised
    remote,             \* the remote source: URL -> response, revealed request by request
    requests,           \* history: the URLs requested by the running (or latest) call
    rl_since_get,       \* history: _rate_limit was called since the latest outbound GET
    ungated,            \* history: GETs issued with no _rate_limit call since the GET before
    calls,              \* history: calls of the operation started
    prev_requests,      \* history: requests of the call before the latest
    prev_outcome,       \* history: outcome of the call before the latest
    xml_content,        \* argument xml_content of parse_form4_content
    summary,            \* what parse_form4_content returned
    parsed,             \* parse_form4_content has returned
    cached_companies,   \* EDGARClient._cached_companies; set is FALSE for None
    last_cache_update,  \* EDGARClient._last_cache_update, -1 for None
    mappings_file,      \* the file company_mappings.json
    clock,              \* time.time() as _load_company_mappings reads it, in ticks of 100 s
    lcm_calls,          \* history: calls of _load_company_mappings
    lcm,                \* history: what the latest call of _load_company_mappings did
    company_search,     \* main.py: the text typed into the search box
    search_cik,         \* main.py: the local cik that the search hands to the client
    search_url,         \* the URL the client forms from that cik
    search_pc,          \* position of the search: "none", "typed", "searched", "requested", "returned"
    extraction,         \* history: what trafilatura.extract returned
    readable_content,   \* main.py: what extract_text_content returned
    f5_idx,             \* get_fortune500_companies: position of the loop over the table, 0 before the call
    companies,          \* get_fortune500_companies: the local list companies
    f5_lookups,         \* history: how the lookup of each company went
    f5_result,          \* what get_fortune500_companies returned
    session_state,      \* st.session_state: the cache keys and timestamp keys of cache_data
    wall,               \* datetime.now() as cache_data reads it, in ticks of half an hour
    memo_calls,         \* history: calls of the wrapped function's wrapper
    memo,               \* history: what the latest call of the wrapper did
    filings_table,      \* the rows of the table filings
    db_calls,           \* history: calls of Database.get_recent_filings
    db_result           \* history: the latest call of Database.get_recent_filings

rl_vars == <<now, last_request_time, rl_pc, time_since, wake, n_calls, first_call, prev_write,
             seen_last, writer_saw>>

rl_locals == <<rl_pc, time_since, wake, n_calls, first_call, prev_write, seen_last, writer_saw>>

arg_vars == <<op, cik, accession_number, form_type, form_types, days_back, company_name, dt_now>>

hist_vars == <<calls, prev_requests, prev_outcome>>

client_vars == <<arg_vars, pc, doc, k, outcome, remote, requests, rl_since_get, ungated, hist_vars>>

parse_vars == <<xml_content, summary, parsed>>

\* the variables of the components other than the rate limiter and the
\* operations that issue requests
cache_vars == <<cached_companies, last_cache_update, mappings_file, clock, lcm_calls, lcm>>

search_vars == <<company_search, search_cik, search_url, search_pc>>

view_vars == <<extraction, readable_content>>

f500_vars == <<f5_idx, companies, f5_lookups, f5_result>>

memo_vars == <<session_state, wall, memo_calls, memo>>

db_vars == <<filings_table, db_calls, db_result>>

\* the variables of the dashboard, the Fortune 500 client, the cache
\* decorator and the database
app_vars == <<search_vars, view_vars, f500_vars, memo_vars, db_vars>>

rest_vars == <<parse_vars, cache_vars, app_vars>>

vars == <<rl_vars, client_vars, rest_vars>>

(***************************************************************************)
(* Bounds of the model.                                                    *)
(***************************************************************************)
MaxTime == 14       \* the clock stops advancing here
MaxRLCalls == 5     \* _rate_limit calls in one behaviour of SpecRate
MaxItems == 2       \* entries of a directory listing
MaxCalls == 2       \* calls of the operation in one behaviour of Spec
MaxFilings == 2     \* positions of the arrays of a manifest
MaxDay == 2         \* filing dates are days 0 .. MaxDay, and datetime.now() is on day MaxDay
MaxCompanies == 2   \* companies of the ticker table
MaxTransactions == 2  \* nonDerivativeTransaction elements of a Form 4 document
MaxDerivative == 1    \* derivativeTransaction elements of a Form 4 document
MaxRaceCalls == 3     \* _rate_limit calls of the two threads in one behaviour of SpecRace
MaxRaceTime == 7      \* the clock of SpecRace stops advancing here
MaxClock == 5         \* the clock of SpecCache stops advancing here
MaxLoads == 3         \* calls of _load_company_mappings in one behaviour of SpecCache
MaxTable == 4        \* rows of the table fortune500_ciks that the model keeps
MaxEntry == 11       \* characters of a text of digits typed into the search box
MaxWall == 5         \* the clock of cache_data stops advancing here
MaxMemoCalls == 3    \* calls of the wrapped function in one behaviour of SpecMemo
MaxRun == 1          \* ticks that one run of the wrapped function may take
MaxRows == 3         \* rows of the table filings
MaxQueries == 2      \* calls of Database.get_recent_filings in one behaviour of SpecDb

(***************************************************************************)
(* EDGARClient.__init__: rate_limit_delay = 0.1 s = 2 ticks of 50 ms.      *)
(***************************************************************************)
rate_limit_delay == 2

Threads == {1, 2}

None == "None"

(***************************************************************************)
(* _rate_limit, lines 25-28: the length of the sleep, 0 for no sleep.      *)
(***************************************************************************)
SleepShort(since) == IF since < rate_limit_delay - 1 THEN rate_limit_delay - since ELSE 0

SleepDuration(since) == IF since < rate_limit_delay THEN rate_limit_delay - since ELSE 0

(***************************************************************************)
(* _rate_limit, one step per statement, for thread t.                      *)
(***************************************************************************)
\* lines 25-26: current_time = time.time(); time_since = current_time - last
rl_read(t) ==
    /\ rl_pc[t] = "idle"
    /\ n_calls < MaxRLCalls
    /\ time_since' = [time_since EXCEPT ![t] = now - last_request_time]
    /\ rl_pc' = [rl_pc EXCEPT ![t] = "check"]
    /\ first_call' = IF first_call < 0 THEN now ELSE first_call
    /\ seen_last' = [seen_last EXCEPT ![t] = last_request_time]
    /\ UNCHANGED <<now, last_request_time, wake, n_calls, prev_write, writer_saw, client_vars, rest_vars>>

\* lines 27-28: the test, and the start of time.sleep
rl_check(t) ==
    /\ rl_pc[t] = "check"
    /\ IF SleepDuration(time_since[t]) > 0
          THEN /\ wake' = [wake EXCEPT ![t] = now + SleepDuration(time_since[t])]
               /\ rl_pc' = [rl_pc EXCEPT ![t] = "sleeping"]
          ELSE /\ rl_pc' = [rl_pc EXCEPT ![t] = "write"]
               /\ UNCHANGED wake
    /\ UNCHANGED <<now, last_request_time, time_since, n_calls, first_call, prev_write,
                   seen_last, writer_saw, client_vars, rest_vars>>

rl_wake_early(t) ==
    /\ rl_pc[t] = "sleeping"
    /\ now >= wake[t] - 1
    /\ rl_pc' = [rl_pc EXCEPT ![t] = "write"]
    /\ UNCHANGED <<now, last_request_time, time_since, wake, n_calls, first_call, prev_write,
                   seen_last, writer_saw, client_vars, rest_vars>>

\* line 28: time.sleep returns no earlier than the requested duration
rl_wake(t) ==
    /\ rl_pc[t] = "sleeping"
    /\ now >= wake[t]
    /\ rl_pc' = [rl_pc EXCEPT ![t] = "write"]
    /\ UNCHANGED <<now, last_request_time, time_since, wake, n_calls, first_call, prev_write,
                   seen_last, writer_saw, client_vars, rest_vars>>

\* line 29: self.last_request_time = time.time(), and the return
rl_write(t) ==
    /\ rl_pc[t] = "write"
    /\ prev_write' = last_request_time
    /\ last_request_time' = now
    /\ n_calls' = n_calls + 1
    /\ rl_pc' = [rl_pc EXCEPT ![t] = "idle"]
    /\ writer_saw' = seen_last[t]
    /\ UNCHANGED <<now, time_since, wake, first_call, seen_last, client_vars, rest_vars>>

\* the clock advances by one tick
Tick ==
    /\ now < MaxTime
    /\ now' = now + 1
    /\ UNCHANGED <<last_request_time, rl_locals, client_vars, rest_vars>>

(***************************************************************************)
(* Python's string operations, on sequences of one-character strings.      *)
(***************************************************************************)
\* s.endswith(suffix)
EndsWith(s, suffix) ==
    /\ Len(s) >= Len(suffix)
    /\ SubSeq(s, Len(s) - Len(suffix) + 1, Len(s)) = suffix

\* sub in s
Contains(s, sub) ==
    \E i \in 1 .. Len(s) - Len(sub) + 1 : SubSeq(s, i, i + Len(sub) - 1) = sub

UpperCase == <<"A","B","C","D","E","F","G","H","I","J","K","L","M",
               "N","O","P","Q","R","S","T","U","V","W","X","Y","Z">>

LowerCase == <<"a","b","c","d","e","f","g","h","i","j","k","l","m",
               "n","o","p","q","r","s","t","u","v","w","x","y","z">>

LowerChar(c) ==
    IF \E i \in 1 .. Len(UpperCase) : UpperCase[i] = c
       THEN LowerCase[CHOOSE i \in 1 .. Len(UpperCase) : UpperCase[i] = c]
       ELSE c

\* s.lower()
Lower(s) == [i \in 1 .. Len(s) |-> LowerChar(s[i])]

\* s.replace("-", "")
StripDashes(s) == SelectSeq(s, LAMBDA c : c # "-")

Digits == {"0","1","2","3","4","5","6","7","8","9"}

\* s.isdigit()
IsDigit(s) == Len(s) > 0 /\ \A i \in 1 .. Len(s) : s[i] \in Digits

DigitChar(d) == <<"0","1","2","3","4","5","6","7","8","9">>[d + 1]

\* str(n) for an int n >= 0
RECURSIVE Str(_)
Str(n) == IF n < 10 THEN <<DigitChar(n)>> ELSE Str(n \div 10) \o <<DigitChar(n % 10)>>

Zeros(n) == [i \in 1 .. n |-> "0"]

\* a variant of Zfill that pads on the right, as s.ljust(width, "0")
ZfillRight(s, width) ==
    IF Len(s) >= width THEN s ELSE s \o Zeros(width - Len(s))

\* s.zfill(width): zeros go after a leading sign
Zfill(s, width) ==
    IF Len(s) >= width THEN s
    ELSE IF Len(s) > 0 /\ s[1] \in {"+", "-"}
            THEN <<s[1]>> \o Zeros(width - Len(s)) \o Tail(s)
            ELSE Zeros(width - Len(s)) \o s

\* d.get(key, default) on a JSON object, a function from its keys
DictGet(d, key, default) == IF key \in DOMAIN d THEN d[key] ELSE default

(***************************************************************************)
(* The client variables of a behaviour that calls no client operation.     *)
(***************************************************************************)
NoOutcome == [kind |-> "none", value |-> <<>>]

NoRemote == [u \in {} |-> NoOutcome]

ClientQuiet ==
    /\ op = "none"
    /\ cik = <<>>
    /\ accession_number = <<>>
    /\ form_type = None
    /\ form_types = <<>>
    /\ days_back = 0
    /\ company_name = <<>>
    /\ dt_now = [day |-> 0, secs |-> 0]
    /\ pc = "idle"
    /\ doc = <<>>
    /\ k = 1
    /\ outcome = NoOutcome
    /\ remote = NoRemote
    /\ requests = <<>>
    /\ rl_since_get = FALSE
    /\ ungated = 0
    /\ calls = 0
    /\ prev_requests = <<>>
    /\ prev_outcome = NoOutcome

(***************************************************************************)
(* The parser variables of a behaviour that parses nothing.                *)
(***************************************************************************)
ParserQuiet ==
    /\ xml_content = <<>>
    /\ summary = <<>>
    /\ parsed = FALSE

(***************************************************************************)
(* The cache of company mappings as lines 19-20 leave it, with no file and *)
(* no call of _load_company_mappings.                                      *)
(***************************************************************************)
NoMappings == [set |-> FALSE, value |-> <<>>]

NoFile == [exists |-> FALSE, json |-> FALSE, data |-> <<>>]

\* what a call did: it returned the cached mapping (line 233) or not, it
\* opened the file or not, the value it returned, the instant and the file of
\* the call, and the instant and the mapping of the latest successful load
\* before the call (before_at, before) and after it (loaded_at, loaded)
LcmRecord(from_cache, read, result, time, file, before_at, before, loaded_at, loaded) ==
    [from_cache |-> from_cache, read |-> read, result |-> result, time |-> time, file |-> file,
     before_at |-> before_at, before |-> before, loaded_at |-> loaded_at, loaded |-> loaded]

NoLoad == LcmRecord(FALSE, FALSE, <<>>, 0, NoFile, -1, <<>>, -1, <<>>)

CacheQuiet ==
    /\ cached_companies = NoMappings
    /\ last_cache_update = -1
    /\ mappings_file = NoFile
    /\ clock = 0
    /\ lcm_calls = 0
    /\ lcm = NoLoad

(***************************************************************************)
(* The dashboard, the Fortune 500 client, the cache decorator and the      *)
(* database before anything has used them.                                 *)
(***************************************************************************)
NoExtraction == [call |-> 0, none |-> FALSE, text |-> ""]

NoContent == [set |-> FALSE, none |-> FALSE, text |-> ""]

NoResult == [done |-> FALSE, value |-> <<>>]

NoState == [key \in {} |-> 0]

NoMemo == [key |-> "", invoked |-> FALSE, raised |-> FALSE, value |-> 0, time |-> 0,
           stored_at |-> -1, before |-> NoState]

NoQuery == [cik |-> "", limit |-> 0, cursor |-> <<>>, none |-> FALSE, rows |-> <<>>]

SearchQuiet ==
    /\ company_search = <<>>
    /\ search_cik = <<>>
    /\ search_url = <<>>
    /\ search_pc = "none"

ViewQuiet ==
    /\ extraction = NoExtraction
    /\ readable_content = NoContent

F500Quiet ==
    /\ f5_idx = 0
    /\ companies = <<>>
    /\ f5_lookups = <<>>
    /\ f5_result = NoResult

MemoQuiet ==
    /\ session_state = NoState
    /\ wall = 0
    /\ memo_calls = 0
    /\ memo = NoMemo

DbQuiet ==
    /\ filings_table = <<>>
    /\ db_calls = 0
    /\ db_result = NoQuery

AppQuiet == SearchQuiet /\ ViewQuiet /\ F500Quiet /\ MemoQuiet /\ DbQuiet

(***************************************************************************)
(* The state after EDGARClient.__init__ (lines 16-17).  The clock starts   *)
(* at least rate_limit_delay after instant 0, as time.time() does.         *)
(***************************************************************************)
InitRL ==
    /\ now \in rate_limit_delay .. rate_limit_delay + 1
    /\ last_request_time = 0
    /\ rl_pc = [t \in Threads |-> "idle"]
    /\ time_since = [t \in Threads |-> 0]
    /\ wake = [t \in Threads |-> 0]
    /\ n_calls = 0
    /\ first_call = -1
    /\ prev_write = -1
    /\ seen_last = [t \in Threads |-> 0]
    /\ writer_saw = -1

(***************************************************************************)
(* SpecRate: one thread calls _rate_limit again and again while the clock  *)
(* runs.                                                                   *)
(***************************************************************************)
InitRate == InitRL /\ ClientQuiet /\ ParserQuiet /\ CacheQuiet /\ AppQuiet

rl_step == rl_read(1) \/ rl_check(1) \/ rl_wake(1) \/ rl_write(1)

NextRate == rl_step \/ Tick

SpecRate == InitRate /\ [][NextRate]_vars

(***************************************************************************)
(* C1: for a single-threaded caller, each _rate_limit call returns no      *)
(* earlier than rate_limit_delay after the previous call returned: any two *)
(* successive values written to last_request_time differ by at least       *)
(* rate_limit_delay, and N calls take at least (N-1) * rate_limit_delay    *)
(* from the start of the first call to the return of the N-th.             *)
(***************************************************************************)
C1_RateLimitSpacing ==
    /\ (n_calls >= 2 => last_request_time - prev_write >= rate_limit_delay)
    /\ (n_calls >= 1 => last_request_time - first_call >= (n_calls - 1) * rate_limit_delay)

\* MaxRLCalls calls have returned, the latest after an actual sleep
C1_Witness ==
    /\ n_calls = MaxRLCalls
    /\ rl_pc[1] = "idle"
    /\ last_request_time - prev_write = rate_limit_delay
    /\ last_request_time - first_call = (n_calls - 1) * rate_limit_delay

(***************************************************************************)
(* SpecRace: the threads of Threads call _rate_limit on one client with no *)
(* lock, their statements interleaved in any order while the clock runs.   *)
(***************************************************************************)
rl_thread(t) == rl_read(t) \/ rl_check(t) \/ rl_wake(t) \/ rl_write(t)

\* the calls begun: those that returned and those under way
Started == n_calls + Cardinality({ t \in Threads : rl_pc[t] # "idle" })

race_step(t) == rl_thread(t) /\ (rl_pc[t] = "idle" => Started < MaxRaceCalls)

race_tick == Tick /\ now < MaxRaceTime

NextRace == (\E t \in Threads : race_step(t)) \/ race_tick

SpecRace == InitRate /\ [][NextRace]_vars

(***************************************************************************)
(* C19: two threads that call _rate_limit on one client with no lock can   *)
(* both read the same last_request_time, both conclude that they may       *)
(* proceed, and return less than rate_limit_delay apart.  The read, the    *)
(* check and the update are not one atomic step: whenever two successive   *)
(* returns are less than rate_limit_delay apart, the later caller acted on *)
(* a last_request_time that was overwritten between its read and its      *)
(* write.                                                                  *)
(***************************************************************************)
TooClose == n_calls >= 2 /\ last_request_time - prev_write < rate_limit_delay

C19_RaceOnStaleRead ==
    TooClose => writer_saw # prev_write

\* both threads read last_request_time = 0, both found no sleep needed, and
\* both returned in the same tick
C19_Witness ==
    /\ n_calls = 2
    /\ rl_pc = [t \in Threads |-> "idle"]
    /\ seen_last = [t \in Threads |-> 0]
    /\ \A t \in Threads : time_since[t] >= rate_limit_delay
    /\ wake = [t \in Threads |-> 0]
    /\ last_request_time - prev_write = 0

(***************************************************************************)
(* The remote source.  A response is an HTTP error (a non-success status   *)
(* or a network failure, raised by requests.get / raise_for_status), a     *)
(* body that is not JSON, a JSON body, or a text body.  A JSON index of    *)
(* the wrong shape (directory or item not of the expected kind) has        *)
(* shape_ok = FALSE.  A directory entry is a JSON object whose fields name *)
(* and type may each be absent.                                            *)
(***************************************************************************)
s_index_json == <<"i","n","d","e","x",".","j","s","o","n">>
s_form4_xml == <<"f","o","r","m","4",".","x","m","l">>
s_xsl_form4_xml == <<"x","s","l","F","3","4","5","X","0","3","/","f","o","r","m","4",".","x","m","l">>
s_primary_doc_xml == <<"p","r","i","m","a","r","y","_","d","o","c",".","x","m","l">>
s_txt == <<".","t","x","t">>
s_xml == <<".","x","m","l">>
s_htm == <<".","h","t","m">>
s_form4 == <<"f","o","r","m","4">>

Entries ==
    { [name |-> <<"w","f","-","F","o","r","m","4",".","x","m","l">>, type |-> "4"],
      [name |-> <<"F","O","R","M","4",".","X","M","L">>],
      [name |-> s_form4_xml, type |-> "4"],
      [name |-> <<"x",".","x","m","l">>, type |-> "EX-99"],
      [name |-> <<"d",".","h","t","m">>, type |-> "10-K"],
      [name |-> <<"r",".","t","x","t">>, type |-> "10-K"],
      [type |-> "10-K"] }

Listings == UNION { [1 .. n -> Entries] : n \in 0 .. MaxItems }

Response(kind, shape_ok, body) == [kind |-> kind, shape_ok |-> shape_ok, body |-> body]

HttpError == Response("error", TRUE, <<>>)
NotJson == Response("badjson", TRUE, <<>>)
TextBody == Response("text", TRUE, <<>>)

IndexResponses ==
    {HttpError, NotJson, Response("json", FALSE, <<>>)}
        \cup { Response("json", TRUE, l) : l \in Listings }

DocResponses == {HttpError, TextBody}

(***************************************************************************)
(* get_filing_document, lines 51-52 and the URLs of lines 59, 74, 86-89,   *)
(* 106, 124 and 127.                                                       *)
(***************************************************************************)
CikWidth == 10

padded_cik == Zfill(cik, CikWidth)

clean_accession == StripDashes(accession_number)

DocUrl(file) == <<"Archives/edgar/data", padded_cik, clean_accession, file>>

index_url == DocUrl(s_index_json)

PatternsSwapped ==
    << DocUrl(s_xsl_form4_xml),
       DocUrl(s_form4_xml),
       DocUrl(clean_accession \o s_txt),
       DocUrl(s_primary_doc_xml) >>

\* lines 85-90
patterns ==
    << DocUrl(s_form4_xml),
       DocUrl(s_xsl_form4_xml),
       DocUrl(clean_accession \o s_txt),
       DocUrl(s_primary_doc_xml) >>

(***************************************************************************)
(* The manifest of a company, https://data.sec.gov/submissions (line 36):  *)
(* filings.recent holds the parallel arrays form, filingDate,              *)
(* accessionNumber and primaryDocument.  A filing date is a well-formed    *)
(* 'YYYY-MM-DD' string, kept as the day it denotes, or a string that       *)
(* strptime rejects.                                                       *)
(***************************************************************************)
submissions_url == <<"data.sec.gov/submissions", padded_cik>>

DateString(d) == [ok |-> TRUE, day |-> d]

BadDate == [ok |-> FALSE, day |-> 0]

DateStrings == { DateString(d) : d \in 0 .. MaxDay } \cup {BadDate}

ManifestForms == {"4", "10-K"}

AccessionOf(i) == <<"0","1","-","2","4","-">> \o <<DigitChar(i)>>

PrimaryDocOf(i) == <<"d">> \o AccessionOf(i)

\* the recent objects with n positions; primaryDocument may be one short or absent
RecentsOf(n) ==
    LET accs == [i \in 1 .. n |-> AccessionOf(i)]
        docs == [i \in 1 .. n |-> PrimaryDocOf(i)]
    IN  UNION { UNION {
            { [form |-> f, filingDate |-> d, accessionNumber |-> accs, primaryDocument |-> docs],
              [form |-> f, filingDate |-> d, accessionNumber |-> accs,
               primaryDocument |-> SubSeq(docs, 1, n - 1)],
              [form |-> f, filingDate |-> d, accessionNumber |-> accs] }
            : d \in [1 .. n -> DateStrings] } : f \in [1 .. n -> ManifestForms] }

Manifests ==
    { [filings |-> [recent |-> r]] : r \in UNION { RecentsOf(n) : n \in 1 .. MaxFilings } }
        \cup { [filings |-> [recent |-> <<>>]], [cik |-> <<"3","2","0">>] }

ManifestResponses ==
    {HttpError, NotJson, Response("json", FALSE, <<>>)}
        \cup { Response("json", TRUE, m) : m \in Manifests }

(***************************************************************************)
(* The ticker table, https://www.sec.gov/files/company_tickers.json (line  *)
(* 255): the companies in the order of company_data.items().               *)
(***************************************************************************)
tickers_url == <<"www.sec.gov/files/company_tickers.json">>

Companies ==
    { [title |-> <<"A","p","p","l","e">>, cik_str |-> 320, ticker |-> "AAPL"],
      [title |-> <<"A","P","A">>, cik_str |-> 1841666, ticker |-> "APA"],
      [cik_str |-> 7, ticker |-> "X"] }

TickerTables == UNION { [1 .. n -> Companies] : n \in 0 .. MaxCompanies }

TickerResponses ==
    {HttpError, NotJson, Response("json", FALSE, <<>>)}
        \cup { Response("json", TRUE, t) : t \in TickerTables }

PossibleResponses(u) ==
    CASE u = index_url -> IndexResponses
      [] u = submissions_url -> ManifestResponses
      [] u = tickers_url -> TickerResponses
      [] OTHER -> DocResponses

(***************************************************************************)
(* requests.get(url) with raise_for_status(): the response r of the remote *)
(* source to url.  A URL requested before answers as it did.               *)
(***************************************************************************)
Answers(u) == IF u \in DOMAIN remote THEN {remote[u]} ELSE PossibleResponses(u)

http_get(u, r) ==
    /\ remote' = remote @@ (u :> r)
    /\ requests' = Append(requests, u)
    /\ ungated' = ungated + (IF rl_since_get THEN 0 ELSE 1)
    /\ rl_since_get' = FALSE

(***************************************************************************)
(* _rate_limit (lines 23-29) called by the single thread of a client       *)
(* operation: it sleeps the requested duration exactly.                    *)
(***************************************************************************)
rate_limit ==
    /\ now' = now + SleepDuration(now - last_request_time)
    /\ last_request_time' = now'
    /\ rl_since_get' = TRUE
    /\ UNCHANGED rl_locals

Return(v) ==
    /\ outcome' = [kind |-> "return", value |-> v]
    /\ pc' = "idle"

\* raise Exception(msg): msg is the sequence of the parts of the message
Raise(msg) ==
    /\ outcome' = [kind |-> "raise", value |-> [msg |-> msg]]
    /\ pc' = "idle"

TextOf(u) == [text_of |-> u]

\* a new call of the operation of this behaviour, with the same arguments
Call(entry) ==
    /\ pc = "idle"
    /\ calls < MaxCalls
    /\ calls' = calls + 1
    /\ prev_requests' = requests
    /\ prev_outcome' = outcome
    /\ requests' = <<>>
    /\ outcome' = NoOutcome
    /\ doc' = <<>>
    /\ k' = 1
    /\ pc' = entry
    /\ UNCHANGED <<rl_vars, arg_vars, remote, rl_since_get, ungated, rest_vars>>

(***************************************************************************)
(* get_filing_document, lines 47-138.                                      *)
(***************************************************************************)
s_failed_doc == "Failed to fetch document: "
s_no_method == "Could not retrieve Form 4 document using any known method"

Form4MatchCaseSensitive(file) ==
    /\ EndsWith(DictGet(file, "name", <<>>), s_xml)
    /\ Contains(DictGet(file, "name", <<>>), s_form4)

\* line 69
Form4Match(file) ==
    /\ EndsWith(DictGet(file, "name", <<>>), s_xml)
    /\ Contains(Lower(DictGet(file, "name", <<>>)), s_form4)

\* lines 67-71: the name of the first matching entry, <<>> for None
RECURSIVE ScanForm4(_, _)
ScanForm4(items, i) ==
    IF i > Len(items) THEN <<>>
    ELSE IF Form4Match(items[i]) THEN items[i]["name"]
    ELSE ScanForm4(items, i + 1)

\* lines 117-118
MainDocMatch(file_entry, ft) ==
    \/ DictGet(file_entry, "type", None) = ft
    \/ EndsWith(DictGet(file_entry, "name", <<>>), s_htm)

\* lines 114-120: main_doc (<<>> for None), or the KeyError of line 119
RECURSIVE ScanMainDoc(_, _, _)
ScanMainDoc(items, ft, i) ==
    IF i > Len(items) THEN [raised |-> FALSE, name |-> <<>>]
    ELSE IF MainDocMatch(items[i], ft)
            THEN IF "name" \in DOMAIN items[i]
                    THEN [raised |-> FALSE, name |-> items[i]["name"]]
                    ELSE [raised |-> TRUE, name |-> <<>>]
    ELSE ScanMainDoc(items, ft, i + 1)

gfd_frame == UNCHANGED <<arg_vars, hist_vars, rest_vars>>

gfd_call == op = "get_filing_document" /\ Call("gfd_entry")

gfd_entry_remembering ==
    /\ pc = "gfd_entry"
    /\ rate_limit
    /\ pc' = IF form_type = "4"
                THEN (IF calls > 1 THEN "f4_pattern_rl" ELSE "f4_index_rl")
                ELSE "g_index_get"
    /\ UNCHANGED <<doc, k, outcome, remote, requests, ungated>>
    /\ gfd_frame

\* line 49, and the branch of line 54
gfd_entry ==
    /\ pc = "gfd_entry"
    /\ rate_limit
    /\ pc' = IF form_type = "4" THEN "f4_index_rl" ELSE "g_index_get"
    /\ UNCHANGED <<doc, k, outcome, remote, requests, ungated>>
    /\ gfd_frame

\* line 61
gfd_f4_index_rl ==
    /\ pc = "f4_index_rl"
    /\ rate_limit
    /\ pc' = "f4_index_get"
    /\ UNCHANGED <<doc, k, outcome, remote, requests, ungated>>
    /\ gfd_frame

\* lines 62-73, and the handler of lines 81-82
gfd_f4_index_get ==
    /\ pc = "f4_index_get"
    /\ \E r \in Answers(index_url) :
          /\ http_get(index_url, r)
          /\ IF r.kind = "json" /\ r.shape_ok /\ ScanForm4(r.body, 1) # <<>>
                THEN doc' = ScanForm4(r.body, 1) /\ pc' = "f4_doc_rl"
                ELSE doc' = doc /\ pc' = "f4_pattern_rl"
    /\ UNCHANGED <<now, last_request_time, rl_locals, k, outcome>>
    /\ gfd_frame

\* line 76
gfd_f4_doc_rl ==
    /\ pc = "f4_doc_rl"
    /\ rate_limit
    /\ pc' = "f4_doc_get"
    /\ UNCHANGED <<doc, k, outcome, remote, requests, ungated>>
    /\ gfd_frame

\* a variant of gfd_f4_doc_get in which the failure of the listed file ends the call
gfd_f4_doc_get_raising ==
    /\ pc = "f4_doc_get"
    /\ \E r \in Answers(DocUrl(doc)) :
          /\ http_get(DocUrl(doc), r)
          /\ IF r.kind = "text"
                THEN Return(TextOf(DocUrl(doc)))
                ELSE Raise(<<s_failed_doc, "HTTPError">>)
    /\ UNCHANGED <<now, last_request_time, rl_locals, doc, k>>
    /\ gfd_frame

\* lines 74-79, and the handler of lines 81-82
gfd_f4_doc_get ==
    /\ pc = "f4_doc_get"
    /\ \E r \in Answers(DocUrl(doc)) :
          /\ http_get(DocUrl(doc), r)
          /\ IF r.kind = "text"
                THEN Return(TextOf(DocUrl(doc)))
                ELSE pc' = "f4_pattern_rl" /\ outcome' = outcome
    /\ UNCHANGED <<now, last_request_time, rl_locals, doc, k>>
    /\ gfd_frame

\* line 95
gfd_f4_pattern_rl ==
    /\ pc = "f4_pattern_rl"
    /\ rate_limit
    /\ pc' = "f4_pattern_get"
    /\ UNCHANGED <<doc, k, outcome, remote, requests, ungated>>
    /\ gfd_frame

gfd_f4_pattern_get_again ==
    /\ pc = "f4_pattern_get"
    /\ \E r \in Answers(patterns[k]) :
          /\ http_get(patterns[k], r)
          /\ IF r.kind = "text"
                THEN Return(TextOf(patterns[k])) /\ k' = k
                ELSE /\ pc' = "f4_pattern_rl"
                     /\ k' = IF k < Len(patterns) THEN k + 1 ELSE 1
                     /\ outcome' = outcome
    /\ UNCHANGED <<now, last_request_time, rl_locals, doc>>
    /\ gfd_frame

\* lines 92-103, and the handler of lines 136-138
gfd_f4_pattern_get ==
    /\ pc = "f4_pattern_get"
    /\ \E r \in Answers(patterns[k]) :
          /\ http_get(patterns[k], r)
          /\ IF r.kind = "text"
                THEN Return(TextOf(patterns[k])) /\ k' = k
                ELSE IF k < Len(patterns)
                        THEN pc' = "f4_pattern_rl" /\ k' = k + 1 /\ outcome' = outcome
                        ELSE Raise(<<s_failed_doc, s_no_method>>) /\ k' = k
    /\ UNCHANGED <<now, last_request_time, rl_locals, doc>>
    /\ gfd_frame

\* a variant of gfd_g_index_get that goes on to the '.txt' document when the
\* index cannot be read, as the Form 4 branch goes on to its templates
gfd_g_index_get_falling_back ==
    /\ pc = "g_index_get"
    /\ \E r \in Answers(index_url) :
          /\ http_get(index_url, r)
          /\ IF r.kind = "json" /\ r.shape_ok /\ ~ScanMainDoc(r.body, form_type, 1).raised
                   /\ ScanMainDoc(r.body, form_type, 1).name # <<>>
                THEN doc' = ScanMainDoc(r.body, form_type, 1).name
                ELSE doc' = clean_accession \o s_txt
          /\ pc' = "g_doc_rl"
          /\ outcome' = outcome
    /\ UNCHANGED <<now, last_request_time, rl_locals, k>>
    /\ gfd_frame

\* lines 106-124, and the handler of lines 136-138
gfd_g_index_get ==
    /\ pc = "g_index_get"
    /\ \E r \in Answers(index_url) :
          /\ http_get(index_url, r)
          /\ CASE r.kind = "error" -> Raise(<<s_failed_doc, "HTTPError">>) /\ doc' = doc
               [] r.kind = "badjson" -> Raise(<<s_failed_doc, "JSONDecodeError">>) /\ doc' = doc
               [] r.kind = "json" /\ ~r.shape_ok ->
                      Raise(<<s_failed_doc, "AttributeError">>) /\ doc' = doc
               [] r.kind = "json" /\ r.shape_ok ->
                      LET main_doc == ScanMainDoc(r.body, form_type, 1) IN
                      IF main_doc.raised
                         THEN Raise(<<s_failed_doc, "KeyError">>) /\ doc' = doc
                         ELSE /\ doc' = IF main_doc.name = <<>>
                                           THEN clean_accession \o s_txt
                                           ELSE main_doc.name
                              /\ pc' = "g_doc_rl"
                              /\ outcome' = outcome
    /\ UNCHANGED <<now, last_request_time, rl_locals, k>>
    /\ gfd_frame

gfd_g_doc_rl_skipped ==
    /\ pc = "g_doc_rl"
    /\ pc' = "g_doc_get"
    /\ UNCHANGED <<rl_vars, rl_since_get, doc, k, outcome, remote, requests, ungated>>
    /\ gfd_frame

\* line 130
gfd_g_doc_rl ==
    /\ pc = "g_doc_rl"
    /\ rate_limit
    /\ pc' = "g_doc_get"
    /\ UNCHANGED <<doc, k, outcome, remote, requests, ungated>>
    /\ gfd_frame

\* lines 127-134, and the handler of lines 136-138
gfd_g_doc_get ==
    /\ pc = "g_doc_get"
    /\ \E r \in Answers(DocUrl(doc)) :
          /\ http_get(DocUrl(doc), r)
          /\ IF r.kind = "text"
                THEN Return(TextOf(DocUrl(doc)))
                ELSE Raise(<<s_failed_doc, "HTTPError">>)
    /\ UNCHANGED <<now, last_request_time, rl_locals, doc, k>>
    /\ gfd_frame

get_filing_document ==
    \/ gfd_call \/ gfd_entry
    \/ gfd_f4_index_rl \/ gfd_f4_index_get \/ gfd_f4_doc_rl \/ gfd_f4_doc_get
    \/ gfd_f4_pattern_rl \/ gfd_f4_pattern_get
    \/ gfd_g_index_get \/ gfd_g_doc_rl \/ gfd_g_doc_get

(***************************************************************************)
(* get_company_filings, lines 31-45, called by the caller or by            *)
(* get_recent_filings (line 284).                                          *)
(***************************************************************************)
s_failed_filings == "Failed to fetch filings: "
s_failed_recent == "Failed to fetch recent filings: "

op_frame == UNCHANGED <<arg_vars, hist_vars, rest_vars>>

gcf_call == op = "get_company_filings" /\ Call("gcf_entry")

\* line 33
gcf_entry ==
    /\ pc = "gcf_entry"
    /\ rate_limit
    /\ pc' = "gcf_get"
    /\ UNCHANGED <<doc, k, outcome, remote, requests, ungated>>
    /\ op_frame

\* what get_company_filings raises to its caller: the handler of lines 43-45
\* and, under get_recent_filings, that of lines 313-315
gcf_raise(cause) ==
    IF op = "get_recent_filings"
       THEN Raise(<<s_failed_recent, s_failed_filings, cause>>)
       ELSE Raise(<<s_failed_filings, cause>>)

\* lines 35-45
gcf_get ==
    /\ pc = "gcf_get"
    /\ \E r \in Answers(submissions_url) :
          /\ http_get(submissions_url, r)
          /\ CASE r.kind = "error" -> gcf_raise("HTTPError")
               [] r.kind = "badjson" -> gcf_raise("JSONDecodeError")
               [] r.kind = "json" ->
                      IF op = "get_recent_filings"
                         THEN pc' = "grf_filter" /\ outcome' = outcome
                         ELSE Return([json |-> r.body, shape_ok |-> r.shape_ok])
    /\ UNCHANGED <<now, last_request_time, rl_locals, doc, k>>
    /\ op_frame

(***************************************************************************)
(* get_recent_filings, lines 280-315.                                      *)
(***************************************************************************)
grf_call == op = "get_recent_filings" /\ Call("gcf_entry")

\* line 286: datetime.now() - timedelta(days=days_back)
cutoff_date == [day |-> dt_now.day - days_back, secs |-> dt_now.secs]

\* datetime.strptime(date, '%Y-%m-%d') of a well-formed date: midnight of its day
Strptime(date) == [day |-> date.day, secs |-> 0]

\* a >= b on datetimes
AtOrAfter(a, b) == a.day > b.day \/ (a.day = b.day /\ a.secs >= b.secs)

InList(x, list) == \E j \in 1 .. Len(list) : list[j] = x

Min(a, b) == IF a <= b THEN a ELSE b

\* lines 298-310: the loop over zip(forms, dates, accession_numbers, primary_docs)
\* from position i on, recent_filings being acc; raised is the error of strptime
RECURSIVE ScanFilings(_, _, _, _, _, _)
ScanFilings(forms, dates, accession_numbers, primary_docs, i, acc) ==
    IF i > Min(Min(Len(forms), Len(dates)), Min(Len(accession_numbers), Len(primary_docs)))
       THEN [raised |-> FALSE, filings |-> acc]
    ELSE IF ~InList(forms[i], form_types)
       THEN ScanFilings(forms, dates, accession_numbers, primary_docs, i + 1, acc)
    ELSE IF ~dates[i].ok
       THEN [raised |-> TRUE, filings |-> <<>>]
    ELSE IF AtOrAfter(Strptime(dates[i]), cutoff_date)
       THEN ScanFilings(forms, dates, accession_numbers, primary_docs, i + 1,
                        Append(acc, [form |-> forms[i],
                                     filing_date |-> Strptime(dates[i]),
                                     accession_number |-> accession_numbers[i],
                                     primary_document |-> primary_docs[i]]))
    ELSE ScanFilings(forms, dates, accession_numbers, primary_docs, i + 1, acc)

\* a variant of RecentFilings that raises on arrays of different lengths, as
\* zip(..., strict=True) does
RecentFilingsStrict(filings_data) ==
    LET recent == DictGet(DictGet(filings_data, "filings", <<>>), "recent", <<>>)
        forms == DictGet(recent, "form", <<>>)
        dates == DictGet(recent, "filingDate", <<>>)
        accession_numbers == DictGet(recent, "accessionNumber", <<>>)
        primary_docs == DictGet(recent, "primaryDocument", <<>>)
    IN
    IF recent = <<>>
       THEN [raised |-> FALSE, filings |-> <<>>]
       ELSE IF {Len(dates), Len(accession_numbers), Len(primary_docs)} # {Len(forms)}
               THEN [raised |-> TRUE, filings |-> <<>>]
               ELSE ScanFilings(forms, dates, accession_numbers, primary_docs, 1, <<>>)

\* lines 288-312 on filings_data
RecentFilings(filings_data) ==
    LET recent == DictGet(DictGet(filings_data, "filings", <<>>), "recent", <<>>) IN
    IF recent = <<>>
       THEN [raised |-> FALSE, filings |-> <<>>]
       ELSE ScanFilings(DictGet(recent, "form", <<>>),
                        DictGet(recent, "filingDate", <<>>),
                        DictGet(recent, "accessionNumber", <<>>),
                        DictGet(recent, "primaryDocument", <<>>), 1, <<>>)

\* lines 285-315, filings_data being the JSON body that line 284 returned
grf_filter ==
    /\ pc = "grf_filter"
    /\ LET r == remote[submissions_url] IN
       IF ~r.shape_ok
          THEN Raise(<<s_failed_recent, "AttributeError">>)
          ELSE IF RecentFilings(r.body).raised
                  THEN Raise(<<s_failed_recent, "ValueError">>)
                  ELSE Return([filings |-> RecentFilings(r.body).filings])
    /\ UNCHANGED <<rl_vars, doc, k, remote, requests, rl_since_get, ungated>>
    /\ op_frame

get_company_filings == gcf_call \/ gcf_entry \/ gcf_get

get_recent_filings == grf_call \/ grf_filter

(***************************************************************************)
(* search_company, lines 250-278.                                          *)
(***************************************************************************)
sc_call == op = "search_company" /\ Call("sc_entry")

\* line 252
sc_entry ==
    /\ pc = "sc_entry"
    /\ rate_limit
    /\ pc' = "sc_get"
    /\ UNCHANGED <<doc, k, outcome, remote, requests, ungated>>
    /\ op_frame

\* lines 266-272: the loop over company_data.items() from position i on;
\* raised is the KeyError of a company without the field read
RECURSIVE ScanCompanies(_, _, _, _)
ScanCompanies(company_data, search_term, i, matches) ==
    IF i > Len(company_data) THEN [raised |-> FALSE, matches |-> matches]
    ELSE IF "title" \notin DOMAIN company_data[i]
       THEN [raised |-> TRUE, matches |-> <<>>]
    ELSE IF ~Contains(Lower(company_data[i]["title"]), search_term)
       THEN ScanCompanies(company_data, search_term, i + 1, matches)
    ELSE IF {"cik_str", "ticker"} \subseteq DOMAIN company_data[i]
       THEN ScanCompanies(company_data, search_term, i + 1,
                Append(matches, [name |-> company_data[i]["title"],
                                 cik |-> Zfill(Str(company_data[i]["cik_str"]), CikWidth),
                                 ticker |-> company_data[i]["ticker"]]))
    ELSE [raised |-> TRUE, matches |-> <<>>]

\* lines 255-278: every exception ends in "return []"
sc_get ==
    /\ pc = "sc_get"
    /\ \E r \in Answers(tickers_url) :
          /\ http_get(tickers_url, r)
          /\ IF r.kind = "json" /\ r.shape_ok
                THEN Return([matches |->
                        IF ScanCompanies(r.body, Lower(company_name), 1, <<>>).raised
                           THEN <<>>
                           ELSE ScanCompanies(r.body, Lower(company_name), 1, <<>>).matches])
                ELSE Return([matches |-> <<>>])
    /\ UNCHANGED <<now, last_request_time, rl_locals, doc, k>>
    /\ op_frame

search_company == sc_call \/ sc_entry \/ sc_get

(***************************************************************************)
(* parse_form4_content, lines 147-220.  A document is malformed XML, or    *)
(* the elements the parser looks for: a reportingOwner element if there is *)
(* one, with its rptOwnerName and officerTitle if present, and the         *)
(* nonDerivativeTransaction and derivativeTransaction elements in document *)
(* order.  A transaction element has a transactionShares/value, a          *)
(* transactionPricePerShare/value and a transactionCode, each if present;  *)
(* the text of a value is a number (float() accepts a sign and a zero) or  *)
(* a text that float() rejects.                                            *)
(***************************************************************************)
Number(v) == [numeric |-> TRUE, val |-> v]

NotANumber == [numeric |-> FALSE, val |-> 0]

TransactionElements ==
    { [shares |-> Number(10), price |-> Number(5), code |-> "P"],
      [shares |-> Number(30), price |-> Number(15), code |-> "S"],
      [shares |-> Number(10), price |-> Number(5)],
      [price |-> Number(5), code |-> "P"],
      [shares |-> Number(10), code |-> "P"],
      [shares |-> NotANumber, price |-> Number(5), code |-> "P"],
      [shares |-> Number(30), price |-> NotANumber, code |-> "S"],
      [shares |-> Number(0), price |-> Number(5), code |-> "S"],
      [shares |-> Number(0 - 10), price |-> Number(5), code |-> "S"] }

OwnerElements ==
    { [rptOwnerName |-> "Jane Doe", officerTitle |-> "CFO"],
      [rptOwnerName |-> "Jane Doe"],
      <<>> }

SeqsUpTo(S, n) == UNION { [1 .. m -> S] : m \in 0 .. n }

DerivativeElements ==
    { [shares |-> Number(30), price |-> Number(15), code |-> "P"],
      [shares |-> Number(10), price |-> Number(5), code |-> "S"],
      [shares |-> Number(10), code |-> "P"] }

\* the documents with at most n nonDerivativeTransaction and m
\* derivativeTransaction elements
XmlDocuments(n, m) ==
    { [well_formed |-> FALSE] }
    \cup { [well_formed |-> TRUE, nonDerivativeTransaction |-> nd, derivativeTransaction |-> d]
             : nd \in SeqsUpTo(TransactionElements, n),
               d \in SeqsUpTo(DerivativeElements, m) }
    \cup { [well_formed |-> TRUE, reportingOwner |-> o,
            nonDerivativeTransaction |-> nd, derivativeTransaction |-> d]
             : o \in OwnerElements,
               nd \in SeqsUpTo(TransactionElements, n),
               d \in SeqsUpTo(DerivativeElements, m) }

\* lines 171-177 (188-194): the element yields a transaction when both values
\* are present and float() accepts both texts
ValidTransaction(trans) ==
    /\ "shares" \in DOMAIN trans
    /\ "price" \in DOMAIN trans
    /\ trans["shares"].numeric
    /\ trans["price"].numeric

RECURSIVE ScanTransactionsStopping(_, _, _)
ScanTransactionsStopping(type, elements, i) ==
    IF i > Len(elements) THEN <<>>
    ELSE IF ValidTransaction(elements[i])
       THEN <<[type |-> type,
               shares |-> elements[i]["shares"].val,
               price_per_share |-> elements[i]["price"].val,
               transaction_code |-> DictGet(elements[i], "code", "Unknown")]>>
            \o ScanTransactionsStopping(type, elements, i + 1)
    ELSE <<>>

\* lines 165-179 (182-196): the transactions of the elements from position i on
RECURSIVE ScanTransactions(_, _, _)
ScanTransactions(type, elements, i) ==
    IF i > Len(elements) THEN <<>>
    ELSE IF ValidTransaction(elements[i])
       THEN <<[type |-> type,
               shares |-> elements[i]["shares"].val,
               price_per_share |-> elements[i]["price"].val,
               transaction_code |-> DictGet(elements[i], "code", "Unknown")]>>
            \o ScanTransactions(type, elements, i + 1)
    ELSE ScanTransactions(type, elements, i + 1)

\* lines 162-196
Transactions(root) ==
    ScanTransactions("non-derivative", root["nonDerivativeTransaction"], 1)
        \o ScanTransactions("derivative", root["derivativeTransaction"], 1)

RECURSIVE SumOver(_, _, _)
SumOver(f(_), list, i) ==
    IF i > Len(list) THEN 0 ELSE f(list[i]) + SumOver(f, list, i + 1)

\* line 203
TotalShares(transactions) == SumOver(LAMBDA t : t.shares, transactions, 1)

\* line 204: the quotient kept as numerator and denominator
WeightedPrice(transactions) ==
    IF TotalShares(transactions) > 0
       THEN [num |-> SumOver(LAMBDA t : t.shares * t.price_per_share, transactions, 1),
             den |-> TotalShares(transactions)]
       ELSE [num |-> 0, den |-> 1]

TransactionTypeOfFirst(transactions) ==
    IF transactions[1].transaction_code = "P" THEN "Purchase" ELSE "Sale"

\* lines 207-208
TransactionType(transactions) ==
    IF \E i \in 1 .. Len(transactions) : transactions[i].transaction_code = "P"
       THEN "Purchase"
       ELSE "Sale"

\* lines 210-217
Summary(root) ==
    [owner_name |-> DictGet(root["reportingOwner"], "rptOwnerName", "Unknown"),
     owner_title |-> DictGet(root["reportingOwner"], "officerTitle", "Unknown Position"),
     transaction_type |-> TransactionType(Transactions(root)),
     shares |-> TotalShares(Transactions(root)),
     price_per_share |-> WeightedPrice(Transactions(root)),
     transactions |-> Transactions(root)]

ErrorValue(message) == [error |-> message]

ParseForm4TransactionsFirst(root) ==
    IF ~root.well_formed THEN ErrorValue("Failed to parse Form 4 content: ")
    ELSE IF Transactions(root) = <<>> THEN ErrorValue("No transaction data found")
    ELSE IF "reportingOwner" \notin DOMAIN root THEN ErrorValue("No reporting owner found")
    ELSE Summary(root)

ParseForm4NoEmptyCheck(root) ==
    IF ~root.well_formed THEN ErrorValue("Failed to parse Form 4 content: ")
    ELSE IF "reportingOwner" \notin DOMAIN root THEN ErrorValue("No reporting owner found")
    ELSE Summary(root)

ParseForm4Unhandled(root) ==
    IF ~root.well_formed THEN [raised |-> "ParseError"]
    ELSE IF "reportingOwner" \notin DOMAIN root THEN ErrorValue("No reporting owner found")
    ELSE IF Transactions(root) = <<>> THEN ErrorValue("No transaction data found")
    ELSE Summary(root)

\* lines 149-220: the value returned for the document root; the handler of
\* lines 218-220 turns the ParseError of line 150 into an error value
ParseForm4(root) ==
    IF ~root.well_formed THEN ErrorValue("Failed to parse Form 4 content: ")
    ELSE IF "reportingOwner" \notin DOMAIN root THEN ErrorValue("No reporting owner found")
    ELSE IF Transactions(root) = <<>> THEN ErrorValue("No transaction data found")
    ELSE Summary(root)

parse_form4_content ==
    /\ ~parsed
    /\ summary' = ParseForm4(xml_content)
    /\ parsed' = TRUE
    /\ UNCHANGED <<xml_content, rl_vars, client_vars, cache_vars, app_vars>>

(***************************************************************************)
(* SpecParse: parse_form4_content applied to a document.                   *)
(***************************************************************************)
InitParse ==
    /\ InitRL /\ now = rate_limit_delay
    /\ ClientQuiet
    /\ xml_content \in XmlDocuments(MaxTransactions, MaxDerivative)
    /\ summary = <<>>
    /\ parsed = FALSE
    /\ CacheQuiet
    /\ AppQuiet

NextParse == parse_form4_content

SpecParse == InitParse /\ [][NextParse]_vars

(***************************************************************************)
(* _load_company_mappings, lines 225-248, and the file it reads.  The file *)
(* company_mappings.json is absent, or holds text that is not JSON (a file *)
(* that save_mappings of update_company_mappings.py is still writing), or  *)
(* a JSON object, with its mapping 'companies' from tickers to companies   *)
(* or without it.  The instants are ticks of 100 s: 300 s is 3 ticks.      *)
(***************************************************************************)
cache_ttl == 3

Truncated == [exists |-> TRUE, json |-> FALSE, data |-> <<>>]

JsonFile(d) == [exists |-> TRUE, json |-> TRUE, data |-> d]

CompanyMappings ==
    { <<>>,
      [AAPL |-> "0000000320"],
      [AAPL |-> "0000000320", APA |-> "0001841666"] }

\* what save_mappings writes (update_company_mappings.py, lines 43-49)
SavedFiles ==
    { JsonFile([last_updated |-> "2024-01-03T00:00:00", companies |-> m]) : m \in CompanyMappings }

MappingsFiles ==
    {NoFile, Truncated, JsonFile([last_updated |-> "2024-01-03T00:00:00"])} \cup SavedFiles

CacheValidAtTtl(t) ==
    /\ cached_companies.set
    /\ last_cache_update >= 0
    /\ t - last_cache_update <= cache_ttl

\* lines 230-232, t being the value of time.time() that line 229 read
CacheValid(t) ==
    /\ cached_companies.set
    /\ last_cache_update >= 0
    /\ t - last_cache_update < cache_ttl

\* lines 227-248
load_company_mappings ==
    /\ lcm_calls < MaxLoads
    /\ lcm_calls' = lcm_calls + 1
    /\ IF CacheValid(clock)
          THEN /\ lcm' = LcmRecord(TRUE, FALSE, cached_companies.value, clock, mappings_file,
                                   lcm.loaded_at, lcm.loaded, lcm.loaded_at, lcm.loaded)
               /\ UNCHANGED <<cached_companies, last_cache_update>>
       ELSE IF ~mappings_file.exists
          THEN /\ lcm' = LcmRecord(FALSE, FALSE, <<>>, clock, mappings_file,
                                   lcm.loaded_at, lcm.loaded, lcm.loaded_at, lcm.loaded)
               /\ UNCHANGED <<cached_companies, last_cache_update>>
       ELSE IF ~mappings_file.json
          THEN /\ lcm' = LcmRecord(FALSE, TRUE, <<>>, clock, mappings_file,
                                   lcm.loaded_at, lcm.loaded, lcm.loaded_at, lcm.loaded)
               /\ UNCHANGED <<cached_companies, last_cache_update>>
       ELSE /\ cached_companies' =
                   [set |-> TRUE, value |-> DictGet(mappings_file.data, "companies", <<>>)]
            /\ last_cache_update' = clock
            /\ lcm' = LcmRecord(FALSE, TRUE, cached_companies'.value, clock, mappings_file,
                                lcm.loaded_at, lcm.loaded, clock, cached_companies'.value)
    /\ UNCHANGED <<mappings_file, clock, rl_vars, client_vars, parse_vars, app_vars>>

\* update_company_mappings.py, lines 41-52: the file is rewritten; a reader
\* may find it half written
save_mappings ==
    /\ \E f \in SavedFiles \cup {Truncated} : mappings_file' = f /\ f # mappings_file
    /\ UNCHANGED <<cached_companies, last_cache_update, clock, lcm_calls, lcm,
                   rl_vars, client_vars, parse_vars, app_vars>>

\* 100 s pass
cache_tick ==
    /\ clock < MaxClock
    /\ clock' = clock + 1
    /\ UNCHANGED <<cached_companies, last_cache_update, mappings_file, lcm_calls, lcm,
                   rl_vars, client_vars, parse_vars, app_vars>>

(***************************************************************************)
(* SpecCache: the calls of _load_company_mappings of one client, the first *)
(* of them the one of line 21, while the file is rewritten and time        *)
(* passes.                                                                 *)
(***************************************************************************)
InitCache ==
    /\ InitRL /\ now = rate_limit_delay
    /\ ClientQuiet
    /\ ParserQuiet
    /\ AppQuiet
    /\ cached_companies = NoMappings
    /\ last_cache_update = -1
    /\ mappings_file \in MappingsFiles
    /\ clock = 0
    /\ lcm_calls = 0
    /\ lcm = NoLoad

NextCache == load_company_mappings \/ save_mappings \/ cache_tick

SpecCache == InitCache /\ [][NextCache]_vars

(***************************************************************************)
(* Fortune500Client (src/fortune500_client.py).  The table fortune500_ciks *)
(* is a dict literal that writes some keys more than once: a key keeps the *)
(* position of its first row and the name of its last.  The model keeps    *)
(* the first MaxTable of six of its rows (lines 12, 13, 27, 31, 32, 43).   *)
(***************************************************************************)
TableRows ==
    << [cik |-> <<"0","0","0","0","3","2","0","1","9","3">>,
        name |-> <<"A","p","p","l","e"," ","I","n","c",".">>],
       [cik |-> <<"0","0","0","0","7","8","9","0","1","9">>,
        name |-> <<"M","i","c","r","o","s","o","f","t"," ","C","o","r","p","o","r","a","t","i","o","n">>],
       [cik |-> <<"0","0","0","0","0","9","3","4","1","0">>,
        name |-> <<"W","e","l","l","s"," ","F","a","r","g","o"," ","&"," ","C","o","m","p","a","n","y">>],
       [cik |-> <<"0","0","0","0","0","9","3","4","1","0">>,
        name |-> <<"W","a","l","m","a","r","t"," ","I","n","c",".">>],
       [cik |-> <<"0","0","0","0","0","6","3","9","0","8">>,
        name |-> <<"C","o","s","t","c","o"," ","W","h","o","l","e","s","a","l","e"," ","C","o","r","p","o","r","a","t","i","o","n">>],
       [cik |-> <<"0","0","0","0","0","9","3","4","1","0">>,
        name |-> <<"E","x","x","o","n","M","o","b","i","l"," ","C","o","r","p","o","r","a","t","i","o","n">>] >>

\* the dict built from the first n rows, as the sequence that items() yields
RECURSIVE DictItems(_, _)
DictItems(rows, n) ==
    IF n = 0 THEN <<>>
    ELSE LET before == DictItems(rows, n - 1) IN
         IF \E i \in 1 .. Len(before) : before[i].cik = rows[n].cik
            THEN [i \in 1 .. Len(before) |->
                    IF before[i].cik = rows[n].cik THEN rows[n] ELSE before[i]]
            ELSE Append(before, rows[n])

fortune500_ciks == DictItems(TableRows, Min(MaxTable, Len(TableRows)))

\* lines 119-173
_get_industry_from_sic(sic) ==
    CASE sic \in {"7371", "7372", "7373", "7374", "7375", "7376", "7377", "7378", "7379"} ->
            "Technology - Software & Services"
      [] sic \in {"3570", "3571", "3572", "3575", "3576", "3577", "3578", "3579"} ->
            "Technology - Hardware"
      [] sic \in {"6021", "6022", "6029", "6035", "6036"} ->
            "Finance - Banking"
      [] sic \in {"6311", "6321", "6331", "6351", "6361", "6399"} ->
            "Finance - Insurance"
      [] sic \in {"6211", "6221", "6282", "6289"} ->
            "Finance - Investment Services"
      [] sic \in {"5211", "5311", "5331", "5399"} ->
            "Retail - Department Stores"
      [] sic \in {"5961", "5962", "5963"} ->
            "Retail - E-commerce"
      [] sic \in {"5411", "5412", "5422", "5461"} ->
            "Retail - Food & Grocery"
      [] sic \in {"2833", "2834", "2835", "2836"} ->
            "Healthcare - Pharmaceuticals"
      [] sic \in {"8011", "8021", "8031", "8041", "8051", "8061", "8071", "8082", "8090"} ->
            "Healthcare - Services"
      [] sic \in {"3841", "3842", "3843", "3844", "3845"} ->
            "Healthcare - Equipment"
      [] sic \in {"2911", "1311", "1381", "1382", "1389"} ->
            "Energy - Oil & Gas"
      [] sic \in {"4911", "4931", "4932", "4939"} ->
            "Energy - Utilities"
      [] sic \in {"3711", "3713", "3714", "3715", "3716"} ->
            "Manufacturing - Automotive"
      [] sic \in {"3721", "3724", "3728"} ->
            "Manufacturing - Aerospace"
      [] sic \in {"4812", "4813", "4822", "4899"} ->
            "Telecommunications"
      [] sic \in {"2080", "2082", "2086", "2087"} ->
            "Consumer Goods - Beverages"
      [] sic \in {"2000", "2011", "2013", "2015", "2020", "2024"} ->
            "Consumer Goods - Food Products"
      [] OTHER -> "Other"

EmptyDict == [key \in {} |-> 0]

\* what get_company_filings(cik) does for the company called name: it raises
\* (a transport error or a body that is not JSON), or it returns the JSON
\* body, which is not an object, or an object that is empty, that has no
\* companyInfo, or whose companyInfo has a name (the local one, another, or
\* the empty string) and a sic, each if present
Lookups(name) ==
    { [kind |-> "raise", data |-> EmptyDict],
      [kind |-> "nondict", data |-> EmptyDict],
      [kind |-> "json", data |-> EmptyDict],
      [kind |-> "json", data |-> [filings |-> EmptyDict]],
      [kind |-> "json", data |-> [companyInfo |-> [name |-> name, sic |-> "7372"]]],
      [kind |-> "json", data |-> [companyInfo |-> [name |-> Lower(name)]]],
      [kind |-> "json", data |-> [companyInfo |-> [name |-> <<>>, sic |-> "6021"]]] }

\* lines 104-109
BasicCompany(item) == [cik |-> item.cik, name |-> item.name, sic |-> "", industry |-> "Unknown"]

\* lines 77-96, and lines 98-109 for what raises
CompanyOf(item, r) ==
    IF r.kind # "json" \/ DOMAIN r.data = {}
       THEN BasicCompany(item)
       ELSE LET company_info == DictGet(r.data, "companyInfo", EmptyDict)
                sic == DictGet(company_info, "sic", "")
                edgar_name == DictGet(company_info, "name", <<>>)
            IN [cik |-> item.cik,
                name |-> IF edgar_name # <<>> /\ edgar_name # item.name
                            THEN edgar_name ELSE item.name,
                sic |-> sic,
                industry |-> _get_industry_from_sic(sic)]

\* the code points of the characters of the names, in increasing order
CodeOrder == <<" ", "&", "-", ".">> \o UpperCase \o LowerCase

Ord(c) == CHOOSE i \in 1 .. Len(CodeOrder) : CodeOrder[i] = c

\* a < b on Python strings
RECURSIVE StrLess(_, _)
StrLess(a, b) ==
    IF b = <<>> THEN FALSE
    ELSE IF a = <<>> THEN TRUE
    ELSE IF Ord(Head(a)) < Ord(Head(b)) THEN TRUE
    ELSE IF Ord(Head(a)) > Ord(Head(b)) THEN FALSE
    ELSE StrLess(Tail(a), Tail(b))

\* c put into the sorted list s behind every company whose name is not greater
RECURSIVE InsertByName(_, _)
InsertByName(c, s) ==
    IF s = <<>> THEN <<c>>
    ELSE IF StrLess(c.name, Head(s).name) THEN <<c>> \o s
    ELSE <<Head(s)>> \o InsertByName(c, Tail(s))

\* line 117: sorted(companies, key=lambda x: x.name), a stable sort
RECURSIVE SortedByName(_)
SortedByName(list) ==
    IF list = <<>> THEN <<>>
    ELSE InsertByName(list[Len(list)], SortedByName(SubSeq(list, 1, Len(list) - 1)))

f500_frame ==
    UNCHANGED <<search_vars, view_vars, memo_vars, db_vars, parse_vars, cache_vars>>

\* lines 69-70
f500_call ==
    /\ f5_idx = 0
    /\ ~f5_result.done
    /\ f5_idx' = 1
    /\ companies' = <<>>
    /\ f5_lookups' = <<>>
    /\ UNCHANGED <<f5_result, rl_vars, client_vars>>
    /\ f500_frame

\* a variant of f500_lookup that leaves out the company whose lookup failed
f500_lookup_dropping ==
    /\ f5_idx \in 1 .. Len(fortune500_ciks)
    /\ \E r \in Lookups(fortune500_ciks[f5_idx].name) :
          /\ companies' = IF r.kind # "json" \/ DOMAIN r.data = {}
                             THEN companies
                             ELSE Append(companies, CompanyOf(fortune500_ciks[f5_idx], r))
          /\ f5_lookups' = Append(f5_lookups, [cik |-> fortune500_ciks[f5_idx].cik,
                                                kind |-> r.kind, data |-> r.data])
    /\ rate_limit
    /\ f5_idx' = f5_idx + 1
    /\ UNCHANGED <<f5_result, arg_vars, pc, doc, k, outcome, remote, requests, ungated, hist_vars>>
    /\ f500_frame

\* lines 72-109, one round of the loop: get_company_filings gates its request
\* (line 33 of edgar_client.py) and the company is appended either way
f500_lookup ==
    /\ f5_idx \in 1 .. Len(fortune500_ciks)
    /\ \E r \in Lookups(fortune500_ciks[f5_idx].name) :
          /\ companies' = Append(companies, CompanyOf(fortune500_ciks[f5_idx], r))
          /\ f5_lookups' = Append(f5_lookups, [cik |-> fortune500_ciks[f5_idx].cik,
                                                kind |-> r.kind, data |-> r.data])
    /\ rate_limit
    /\ f5_idx' = f5_idx + 1
    /\ UNCHANGED <<f5_result, arg_vars, pc, doc, k, outcome, remote, requests, ungated, hist_vars>>
    /\ f500_frame

\* lines 111-117
f500_return ==
    /\ f5_idx = Len(fortune500_ciks) + 1
    /\ f5_result' = [done |-> TRUE, value |-> SortedByName(companies)]
    /\ f5_idx' = 0
    /\ UNCHANGED <<companies, f5_lookups, rl_vars, client_vars>>
    /\ f500_frame

get_fortune500_companies == f500_call \/ f500_lookup \/ f500_return

InitF500 ==
    /\ InitRL /\ now = rate_limit_delay
    /\ ClientQuiet
    /\ ParserQuiet
    /\ CacheQuiet
    /\ AppQuiet

SpecF500 == InitF500 /\ [][get_fortune500_companies]_vars

(***************************************************************************)
(* The search of the dashboard (src/main.py, lines 107-165).  The text     *)
(* typed is a string of the digits "0" and "7" of up to MaxEntry           *)
(* characters, or one of a few names.  A text of digits is padded and used *)
(* as the cik (lines 108-110); any other text is looked up among the       *)
(* Fortune 500 companies and, if none matches, with search_company (lines  *)
(* 112-151).  The cik found goes to get_recent_filings (line 161), which   *)
(* hands it to get_company_filings, which gates the request and pads the   *)
(* cik into its URL (edgar_client.py, lines 33-36).                        *)
(***************************************************************************)
EntryDigits == {"0", "7"}

DigitEntries(n) == UNION { [1 .. m -> EntryDigits] : m \in 1 .. n }

NameEntries == { <<"i","n","c">>, <<"A","P","A">>, <<"a","p">>, <<"+","7">> }

\* utils.py, validate_cik
validate_cik(c) == c # <<>> /\ IsDigit(c) /\ Len(c) <= CikWidth

search_frame ==
    UNCHANGED <<view_vars, memo_vars, db_vars, parse_vars, cache_vars>>

\* lines 108-110
search_cik_entry ==
    /\ search_pc = "typed"
    /\ IsDigit(company_search)
    /\ search_cik' = Zfill(company_search, CikWidth)
    /\ search_pc' = "searched"
    /\ UNCHANGED <<company_search, search_url, f500_vars, rl_vars, client_vars>>
    /\ search_frame

\* lines 112-115: the search goes on to call get_fortune500_companies
search_name ==
    /\ search_pc = "typed"
    /\ ~IsDigit(company_search)
    /\ search_pc' = "f500"
    /\ UNCHANGED <<company_search, search_cik, search_url, f500_vars, rl_vars, client_vars>>
    /\ search_frame

\* line 116
F500Matches(list, text) ==
    SelectSeq(list, LAMBDA c : Contains(Lower(c.name), Lower(text)))

\* lines 116-119 and 138-151: the only match, or the one the user selects;
\* with no match the search goes on to call search_company
search_match ==
    /\ search_pc = "f500"
    /\ f5_result.done
    /\ LET matches == F500Matches(f5_result.value, company_search) IN
       IF matches = <<>>
          THEN search_pc' = "sec" /\ search_cik' = search_cik
          ELSE /\ \E i \in 1 .. Len(matches) : search_cik' = matches[i].cik
               /\ search_pc' = "searched"
    /\ UNCHANGED <<company_search, search_url, f500_vars, rl_vars, client_vars>>
    /\ search_frame

\* lines 120-137: the only match, or the one the user selects; with no match
\* the search ends (line 123)
search_pick ==
    /\ search_pc = "sec"
    /\ calls = 1
    /\ pc = "idle"
    /\ LET sec_matches == outcome.value.matches IN
       IF sec_matches = <<>>
          THEN search_pc' = "returned" /\ search_cik' = search_cik
          ELSE /\ \E i \in 1 .. Len(sec_matches) : search_cik' = sec_matches[i].cik
               /\ search_pc' = "searched"
    /\ UNCHANGED <<company_search, search_url, f500_vars, rl_vars, client_vars>>
    /\ search_frame

\* main.py lines 161-165 and edgar_client.py lines 284 and 33-36
search_request ==
    /\ search_pc = "searched"
    /\ rate_limit
    /\ search_url' = <<"data.sec.gov/submissions", Zfill(search_cik, CikWidth)>>
    /\ search_pc' = "requested"
    /\ UNCHANGED <<company_search, search_cik, f500_vars>>
    /\ UNCHANGED <<arg_vars, pc, doc, k, outcome, remote, requests, ungated, hist_vars>>
    /\ search_frame

InitSearch ==
    /\ InitRL /\ now = rate_limit_delay
    /\ company_search \in DigitEntries(MaxEntry) \cup NameEntries
    /\ search_pc = "typed"
    /\ search_cik = <<>>
    /\ search_url = <<>>
    /\ op = "search_company"
    /\ company_name = company_search
    /\ cik = <<>> /\ accession_number = <<>> /\ form_type = None
    /\ form_types = <<>> /\ days_back = 0
    /\ dt_now = [day |-> 0, secs |-> 0]
    /\ pc = "idle"
    /\ doc = <<>>
    /\ k = 1
    /\ outcome = NoOutcome
    /\ remote = NoRemote
    /\ requests = <<>>
    /\ rl_since_get = FALSE
    /\ ungated = 0
    /\ calls = 0
    /\ prev_requests = <<>>
    /\ prev_outcome = NoOutcome
    /\ ParserQuiet
    /\ CacheQuiet
    /\ ViewQuiet /\ F500Quiet /\ MemoQuiet /\ DbQuiet

NextSearch ==
    \/ search_cik_entry
    \/ search_name
    \/ (search_pc = "f500" /\ get_fortune500_companies)
    \/ search_match
    \/ (search_pc = "sec" /\ (calls = 0 \/ pc # "idle") /\ search_company)
    \/ search_pick
    \/ search_request

SpecSearch == InitSearch /\ [][NextSearch]_vars

(***************************************************************************)
(* cache_data (src/utils.py, lines 6-32) around one function, as main.py   *)
(* wraps show_overview with ttl_seconds=3600 (line 250).  The wrapped      *)
(* function returns a value or raises, and takes up to MaxRun ticks.  Time *)
(* is counted in ticks of half an hour.                                    *)
(***************************************************************************)
ttl_seconds == 2

\* lines 12-13, args being the argument of the call
CacheKey(args) == <<"cache", "show_overview", args>>

TimestampKey(args) == <<"cache", "show_overview", args, "timestamp">>

MemoArgs == {"0000320193", "0000789019"}

MemoValues == {1, 2}

\* a variant of MemoFresh that still serves an entry that is ttl_seconds old
MemoFreshAtTtl(state, args, t) ==
    /\ CacheKey(args) \in DOMAIN state
    /\ TimestampKey(args) \in DOMAIN state
    /\ t - state[TimestampKey(args)] <= ttl_seconds

\* lines 16-20 at the instant t
MemoFresh(state, args, t) ==
    /\ CacheKey(args) \in DOMAIN state
    /\ TimestampKey(args) \in DOMAIN state
    /\ t - state[TimestampKey(args)] < ttl_seconds

\* lines 27-28
Stored(state, args, result, t) ==
    [key \in DOMAIN state \cup {CacheKey(args), TimestampKey(args)} |->
        IF key = CacheKey(args) THEN result
        ELSE IF key = TimestampKey(args) THEN t
        ELSE state[key]]

memo_frame ==
    /\ UNCHANGED <<rl_vars, client_vars, parse_vars, cache_vars>>
    /\ UNCHANGED <<search_vars, view_vars, f500_vars, db_vars>>

\* lines 14-21: the stored result comes back
memo_hit ==
    /\ memo_calls < MaxMemoCalls
    /\ \E args \in MemoArgs :
          /\ MemoFresh(session_state, args, wall)
          /\ memo' = [key |-> args, invoked |-> FALSE, raised |-> FALSE,
                      value |-> session_state[CacheKey(args)], time |-> wall,
                      stored_at |-> -1, before |-> session_state]
    /\ memo_calls' = memo_calls + 1
    /\ UNCHANGED <<session_state, wall>>
    /\ memo_frame

\* lines 14-20 and 23-30: the function runs for d ticks and returns result
memo_store ==
    /\ memo_calls < MaxMemoCalls
    /\ \E args \in MemoArgs : \E d \in 0 .. MaxRun : \E result \in MemoValues :
          /\ ~MemoFresh(session_state, args, wall)
          /\ wall + d <= MaxWall
          /\ wall' = wall + d
          /\ session_state' = Stored(session_state, args, result, wall')
          /\ memo' = [key |-> args, invoked |-> TRUE, raised |-> FALSE,
                      value |-> result, time |-> wall,
                      stored_at |-> wall', before |-> session_state]
    /\ memo_calls' = memo_calls + 1
    /\ memo_frame

\* lines 14-20 and 24: the function runs for d ticks and raises
memo_raise ==
    /\ memo_calls < MaxMemoCalls
    /\ \E args \in MemoArgs : \E d \in 0 .. MaxRun :
          /\ ~MemoFresh(session_state, args, wall)
          /\ wall + d <= MaxWall
          /\ wall' = wall + d
          /\ memo' = [key |-> args, invoked |-> TRUE, raised |-> TRUE,
                      value |-> 0, time |-> wall,
                      stored_at |-> -1, before |-> session_state]
    /\ memo_calls' = memo_calls + 1
    /\ UNCHANGED session_state
    /\ memo_frame

\* the clock of datetime.now() runs between the calls
memo_tick ==
    /\ wall < MaxWall
    /\ wall' = wall + 1
    /\ UNCHANGED <<session_state, memo_calls, memo>>
    /\ memo_frame

InitMemo ==
    /\ InitRL /\ now = rate_limit_delay
    /\ ClientQuiet
    /\ ParserQuiet
    /\ CacheQuiet
    /\ AppQuiet

NextMemo == memo_hit \/ memo_store \/ memo_raise \/ memo_tick

SpecMemo == InitMemo /\ [][NextMemo]_vars

(***************************************************************************)
(* Database (src/database.py): the table filings (lines 40-50), whose id   *)
(* is a serial number, store_filing (lines 77-87) and get_recent_filings   *)
(* (lines 101-109).  A filing date is a day number.                        *)
(***************************************************************************)
DbCiks == {"0000320193", "0000789019"}

DbLimits == {1, 2}

\* lines 80-86: the row inserted and committed
InsertedRow(table, company_cik, date) ==
    [id |-> Len(table) + 1, company_cik |-> company_cik, filing_date |-> date]

\* lines 104-109: what the cursor may hold after the SELECT, the rows of cik by
\* descending filing_date, rows of one date in any order, cut at limit
SelectRecent(table, company_cik, limit) ==
    LET matching == { i \in 1 .. Len(table) : table[i].company_cik = company_cik }
        n == Min(limit, Cardinality(matching))
    IN  { [j \in 1 .. n |-> table[q[j]]] :
            q \in { p \in [1 .. Cardinality(matching) -> matching] :
                      /\ \A a, b \in DOMAIN p : a # b => p[a] # p[b]
                      /\ \A a, b \in DOMAIN p :
                            a < b => table[p[a]].filing_date >= table[p[b]].filing_date } }

db_frame ==
    /\ UNCHANGED <<rl_vars, client_vars, parse_vars, cache_vars>>
    /\ UNCHANGED <<search_vars, view_vars, f500_vars, memo_vars>>

\* lines 77-87
store_filing ==
    /\ Len(filings_table) < MaxRows
    /\ \E company_cik \in DbCiks : \E date \in 0 .. MaxDay :
          filings_table' = Append(filings_table, InsertedRow(filings_table, company_cik, date))
    /\ UNCHANGED <<db_calls, db_result>>
    /\ db_frame

\* lines 101-109: the SELECT is executed and the function ends there, without
\* a return statement: it returns None
db_get_recent_filings ==
    /\ db_calls < MaxQueries
    /\ \E company_cik \in DbCiks : \E limit \in DbLimits :
       \E cursor \in SelectRecent(filings_table, company_cik, limit) :
          db_result' = [cik |-> company_cik, limit |-> limit, cursor |-> cursor,
                        none |-> TRUE, rows |-> <<>>]
    /\ db_calls' = db_calls + 1
    /\ UNCHANGED filings_table
    /\ db_frame

InitDb ==
    /\ InitRL /\ now = rate_limit_delay
    /\ ClientQuiet
    /\ ParserQuiet
    /\ CacheQuiet
    /\ AppQuiet

NextDb == store_filing \/ db_get_recent_filings

SpecDb == InitDb /\ [][NextDb]_vars

(***************************************************************************)
(* Spec: one client, constructed (lines 11-21), whose single thread calls  *)
(* one operation MaxCalls times with the same arguments against the same   *)
(* remote source.                                                          *)
(***************************************************************************)
CIKs == { <<"3","2","0">>, <<"0","0","0","0","0","0","0","3","2","0">> }

Accessions == { <<"0","1","-","2","4","-","7">> }

FormTypes == {"4", "10-K"}

FormTypeLists == { <<"4">>, <<"10-K", "10-Q", "8-K">> }

CompanyNames == { <<"a","p">>, <<"A","p","p">>, <<"z">> }

InitArgs ==
    \/ /\ op = "get_filing_document"
       /\ cik \in CIKs
       /\ accession_number \in Accessions
       /\ form_type \in FormTypes
       /\ form_types = <<>> /\ days_back = 0 /\ company_name = <<>>
       /\ dt_now = [day |-> 0, secs |-> 0]
    \/ /\ op = "get_company_filings"
       /\ cik \in CIKs
       /\ accession_number = <<>> /\ form_type = None
       /\ form_types = <<>> /\ days_back = 0 /\ company_name = <<>>
       /\ dt_now = [day |-> 0, secs |-> 0]
    \/ /\ op = "get_recent_filings"
       /\ cik = <<"3","2","0">>
       /\ form_types \in FormTypeLists
       /\ days_back = 1
       /\ dt_now \in [day : {MaxDay}, secs : 0 .. 1]
       /\ accession_number = <<>> /\ form_type = None /\ company_name = <<>>
    \/ /\ op = "search_company"
       /\ company_name \in CompanyNames
       /\ cik = <<>> /\ accession_number = <<>> /\ form_type = None
       /\ form_types = <<>> /\ days_back = 0
       /\ dt_now = [day |-> 0, secs |-> 0]

Init ==
    /\ InitRL
    /\ now = rate_limit_delay
    /\ InitArgs
    /\ pc = "idle"
    /\ doc = <<>>
    /\ k = 1
    /\ outcome = NoOutcome
    /\ remote = NoRemote
    /\ requests = <<>>
    /\ rl_since_get = FALSE
    /\ ungated = 0
    /\ calls = 0
    /\ prev_requests = <<>>
    /\ prev_outcome = NoOutcome
    /\ ParserQuiet
    /\ CacheQuiet
    /\ AppQuiet

Next == get_filing_document \/ get_company_filings \/ get_recent_filings \/ search_company

Spec == Init /\ [][Next]_vars

(***************************************************************************)
(* SpecFetch: the behaviours of Spec that call get_filing_document.        *)
(* FairFetch adds that a running call takes its next step: the thread of   *)
(* the caller keeps running, and every request is answered.                *)
(***************************************************************************)
InitFetch == Init /\ op = "get_filing_document"

SpecFetch == InitFetch /\ [][get_filing_document]_vars

Running == get_filing_document /\ pc # "idle"

FairFetch == SpecFetch /\ WF_vars(Running)

(***************************************************************************)
(* extract_text_content (edgar_client.py, lines 140-145), which the        *)
(* dashboard applies to the document that get_filing_document returned     *)
(* (main.py, lines 178-184 and 221-227).  trafilatura.extract yields None  *)
(* or a text, which may be empty.                                          *)
(***************************************************************************)
Extractions(n) ==
    { [call |-> n, none |-> TRUE, text |-> ""],
      [call |-> n, none |-> FALSE, text |-> ""],
      [call |-> n, none |-> FALSE, text |-> "readable text"] }

s_no_content == "No readable content found"

\* a variant of ExtractTextContent without the test of line 143
ExtractTextContentUnchecked(result) ==
    [set |-> TRUE, none |-> result.none, text |-> result.text]

\* lines 143-145
ExtractTextContent(result) ==
    IF result.none
       THEN [set |-> TRUE, none |-> FALSE, text |-> s_no_content]
       ELSE [set |-> TRUE, none |-> FALSE, text |-> result.text]

\* line 142 and lines 143-145, once for the document of each call that returned one
extract_text_content ==
    /\ op = "get_filing_document"
    /\ pc = "idle"
    /\ outcome.kind = "return"
    /\ extraction.call < calls
    /\ \E result \in Extractions(calls) :
          /\ extraction' = result
          /\ readable_content' = ExtractTextContent(result)
    /\ UNCHANGED <<rl_vars, client_vars, parse_vars, cache_vars>>
    /\ UNCHANGED <<search_vars, f500_vars, memo_vars, db_vars>>

NextView == get_filing_document \/ extract_text_content

SpecView == InitFetch /\ [][NextView]_vars

(***************************************************************************)
(* What the claims say of a directory listing, stated on the listing.      *)
(***************************************************************************)
IsGfd == op = "get_filing_document"

Finished == pc = "idle" /\ calls >= 1

IndexKnown == index_url \in DOMAIN remote

IndexListed == remote[index_url].kind = "json" /\ remote[index_url].shape_ok

Listed == remote[index_url].body

NamesForm4(e) ==
    /\ "name" \in DOMAIN e
    /\ EndsWith(e.name, <<".","x","m","l">>)
    /\ Contains(Lower(e.name), <<"f","o","r","m","4">>)

DeclaresOrHtm(e) ==
    \/ "type" \in DOMAIN e /\ e.type = form_type
    \/ "name" \in DOMAIN e /\ EndsWith(e.name, <<".","h","t","m">>)

\* entry i is the first entry of the listing that satisfies P
FirstWith(P(_), i) ==
    /\ i \in 1 .. Len(Listed)
    /\ P(Listed[i])
    /\ \A j \in 1 .. i - 1 : ~P(Listed[j])

IndexLookupFailed ==
    \/ ~IndexListed
    \/ \A i \in 1 .. Len(Listed) : ~NamesForm4(Listed[i])

Templates ==
    << DocUrl(<<"f","o","r","m","4",".","x","m","l">>),
       DocUrl(<<"x","s","l","F","3","4","5","X","0","3","/","f","o","r","m","4",".","x","m","l">>),
       DocUrl(StripDashes(accession_number) \o <<".","t","x","t">>),
       DocUrl(<<"p","r","i","m","a","r","y","_","d","o","c",".","x","m","l">>) >>

Last(q) == q[Len(q)]

(***************************************************************************)
(* C2: every outbound GET of the client is preceded by a _rate_limit call  *)
(* made after the previous outbound GET: no GET is ever issued with no     *)
(* _rate_limit call since the GET before it.                               *)
(***************************************************************************)
C2_EveryGetRateLimited == ungated = 0

\* a second call has issued its sixth request
C2_Witness == calls = 2 /\ Len(requests) = 6 /\ pc = "idle" /\ ungated = 0

(***************************************************************************)
(* C3: for form_type '4', when the index lookup fails (request error,      *)
(* malformed response, no matching entry), the requests after the index    *)
(* are the four templates in their fixed order, each requested only after  *)
(* the one before failed, and the call returns the text of the first that  *)
(* succeeds.                                                               *)
(***************************************************************************)
C3_FallbackInOrder ==
    (IsGfd /\ form_type = "4" /\ Len(requests) >= 1 /\ IndexKnown /\ IndexLookupFailed) =>
        LET tried == SubSeq(requests, 2, Len(requests)) IN
        /\ Len(tried) <= 4
        /\ \A i \in 1 .. Len(tried) : tried[i] = Templates[i]
        /\ \A i \in 1 .. Len(tried) - 1 : remote[tried[i]].kind = "error"
        /\ pc = "idle" =>
              /\ Len(tried) >= 1
              /\ \/ /\ remote[Last(tried)].kind = "text"
                    /\ outcome = [kind |-> "return", value |-> TextOf(Last(tried))]
                 \/ /\ Len(tried) = 4
                    /\ remote[Last(tried)].kind = "error"
                    /\ outcome.kind = "raise"

\* no entry of a two-entry listing matched, the first two templates failed and
\* the third answered
C3_Witness ==
    /\ IsGfd /\ form_type = "4" /\ pc = "idle" /\ IndexKnown
    /\ IndexListed /\ Len(Listed) = 2 /\ IndexLookupFailed
    /\ Len(requests) = 4
    /\ outcome = [kind |-> "return", value |-> TextOf(Templates[3])]

(***************************************************************************)
(* C4: for form_type '4' the first request is the accession's index.json;  *)
(* when the index lists a matching entry the next request is the first     *)
(* entry, in listing order, whose name ends with '.xml' and contains       *)
(* 'form4' in any case, and when that request succeeds its text is         *)
(* returned with no template requested.                                    *)
(***************************************************************************)
C4_IndexThenListedFile ==
    (IsGfd /\ form_type = "4" /\ Len(requests) >= 1) =>
        /\ requests[1] = DocUrl(<<"i","n","d","e","x",".","j","s","o","n">>)
        /\ (IndexListed /\ ~IndexLookupFailed) =>
              /\ pc = "idle" => Len(requests) >= 2
              /\ Len(requests) >= 2 =>
                    \E i \in 1 .. Len(Listed) :
                        FirstWith(NamesForm4, i) /\ requests[2] = DocUrl(Listed[i].name)
              /\ (pc = "idle" /\ remote[requests[2]].kind = "text") =>
                    /\ Len(requests) = 2
                    /\ outcome = [kind |-> "return", value |-> TextOf(requests[2])]

\* the second entry, named wf-Form4.xml, was requested after FORM4.XML was
\* passed over, and its text returned
C4_Witness ==
    /\ IsGfd /\ form_type = "4" /\ pc = "idle" /\ Len(requests) = 2
    /\ IndexListed /\ Len(Listed) = 2 /\ FirstWith(NamesForm4, 2)
    /\ Listed[1] = [name |-> <<"F","O","R","M","4",".","X","M","L">>]
    /\ outcome = [kind |-> "return", value |-> TextOf(DocUrl(Listed[2].name))]

(***************************************************************************)
(* C5: for a form_type other than '4', once the index is listed, the       *)
(* document requested is the first entry, in listing order, whose declared *)
(* type equals the requested form type or whose name ends with '.htm';     *)
(* with no such entry it is '<dash-stripped accession>.txt'.               *)
(***************************************************************************)
C5_MainDocumentChoice ==
    (IsGfd /\ form_type # "4" /\ Finished /\ IndexKnown /\ IndexListed) =>
        /\ Len(requests) = 2
        /\ IF \E i \in 1 .. Len(Listed) : DeclaresOrHtm(Listed[i])
              THEN \E i \in 1 .. Len(Listed) :
                      /\ FirstWith(DeclaresOrHtm, i)
                      /\ "name" \in DOMAIN Listed[i]
                      /\ requests[2] = DocUrl(Listed[i].name)
              ELSE requests[2] = DocUrl(StripDashes(accession_number) \o <<".","t","x","t">>)

(***************************************************************************)
(* C6: every call of get_filing_document terminates: a Form 4 call makes   *)
(* at most 6 outbound requests and a generic call at most 2, and a call    *)
(* whose last candidate failed ends with a raised error, for Form 4 the    *)
(* one that carries 'Could not retrieve Form 4 document using any known    *)
(* method' after the prefix of the handler of lines 136-138.               *)
(***************************************************************************)
C6_RequestsBounded ==
    IsGfd =>
        /\ Len(requests) <= (IF form_type = "4" THEN 6 ELSE 2)
        /\ (Finished /\ remote[Last(requests)].kind = "error") =>
              /\ outcome.kind = "raise"
              /\ form_type = "4" =>
                    outcome.value.msg =
                        << "Failed to fetch document: ",
                           "Could not retrieve Form 4 document using any known method" >>

C6_Terminates == []C6_RequestsBounded /\ ((pc # "idle") ~> (pc = "idle"))

\* a Form 4 call ended with the error after its six requests failed
C6_Witness ==
    /\ IsGfd /\ form_type = "4" /\ Finished /\ Len(requests) = 6
    /\ \A i \in 1 .. 6 : remote[requests[i]].kind # "text"
    /\ outcome.kind = "raise"

(***************************************************************************)
(* C7: two calls of get_filing_document with the same arguments against    *)
(* the same remote responses request the same URLs in the same order and   *)
(* end the same way.                                                       *)
(***************************************************************************)
C7_SameAttemptsSameOutcome ==
    (IsGfd /\ calls >= 2 /\ pc = "idle") =>
        /\ requests = prev_requests
        /\ outcome = prev_outcome

\* the second of two calls went through the index, a listed file and two
\* templates
C7_Witness ==
    /\ IsGfd /\ calls = 2 /\ pc = "idle"
    /\ Len(requests) = 4 /\ Len(prev_requests) = 4
    /\ IndexListed /\ ~IndexLookupFailed
    /\ outcome.kind = "return"

(***************************************************************************)
(* C8: outside the Form 4 fallback chain, an operation that met a          *)
(* transport error (a non-success status or a network failure) ends with   *)
(* an error raised to its caller: get_company_filings, get_recent_filings, *)
(* the generic branch of get_filing_document and search_company.           *)
(***************************************************************************)
MetTransportError == \E i \in 1 .. Len(requests) : remote[requests[i]].kind = "error"

C8_TransportErrorsRaised ==
    (Finished /\ ~(IsGfd /\ form_type = "4") /\ MetTransportError) => outcome.kind = "raise"

(***************************************************************************)
(* What the claims say of a Form 4 document, stated on the document.       *)
(***************************************************************************)
HasOwner == "reportingOwner" \in DOMAIN xml_content

Elements == xml_content.nonDerivativeTransaction \o xml_content.derivativeTransaction

\* the element has a numeric share count and a numeric price
Usable(e) ==
    /\ {"shares", "price"} \subseteq DOMAIN e
    /\ e.shares.numeric /\ e.price.numeric

(***************************************************************************)
(* C9: when the XML has no reportingOwner element, parse_form4_content     *)
(* returns the error value 'No reporting owner found', whether or not the  *)
(* document has valid transaction elements.                                *)
(***************************************************************************)
C9_NoOwnerError ==
    (parsed /\ xml_content.well_formed /\ ~HasOwner) =>
        summary = [error |-> "No reporting owner found"]

\* a document without an owner, once with a valid transaction
C9_Witness ==
    /\ parsed /\ xml_content.well_formed /\ ~HasOwner
    /\ \E i \in 1 .. Len(Elements) : Usable(Elements[i])
    /\ summary = [error |-> "No reporting owner found"]

(***************************************************************************)
(* C10: when a reportingOwner element is present and no valid transaction  *)
(* remains (no transaction element, or every one skipped),                 *)
(* parse_form4_content returns the error value 'No transaction data        *)
(* found', with no aggregate field, never the owner error.                 *)
(***************************************************************************)
C10_NoTransactionError ==
    (parsed /\ xml_content.well_formed /\ HasOwner
        /\ \A i \in 1 .. Len(Elements) : ~Usable(Elements[i])) =>
        /\ DOMAIN summary = {"error"}
        /\ summary.error = "No transaction data found"

\* an owner and three elements, every one of them skipped
C10_Witness ==
    /\ parsed /\ xml_content.well_formed /\ HasOwner
    /\ Len(Elements) = 3
    /\ \A i \in 1 .. Len(Elements) : ~Usable(Elements[i])
    /\ summary = [error |-> "No transaction data found"]

(***************************************************************************)
(* What the claims say of the transactions of a document.                  *)
(***************************************************************************)
\* the elements with a numeric share count and a numeric price, in the order
\* the parser meets them
UsableElements == SelectSeq(Elements, Usable)

\* the document without the elements that are skipped
WithoutSkipped ==
    [xml_content EXCEPT !.nonDerivativeTransaction = SelectSeq(@, Usable),
                        !.derivativeTransaction = SelectSeq(@, Usable)]

CodedP(e) == "code" \in DOMAIN e /\ e.code = "P"

RECURSIVE SumFirst(_, _)
SumFirst(q, n) == IF n = 0 THEN 0 ELSE q[n] + SumFirst(q, n - 1)

SumOfShares ==
    SumFirst([i \in 1 .. Len(UsableElements) |-> UsableElements[i].shares.val],
             Len(UsableElements))

SumOfSharesTimesPrice ==
    SumFirst([i \in 1 .. Len(UsableElements) |->
                 UsableElements[i].shares.val * UsableElements[i].price.val],
             Len(UsableElements))

IsSummary ==
    DOMAIN summary = {"owner_name", "owner_title", "transaction_type",
                      "shares", "price_per_share", "transactions"}

Parseable == parsed /\ xml_content.well_formed /\ HasOwner /\ UsableElements # <<>>

(***************************************************************************)
(* C11: a transaction element, derivative or not, that lacks a share count *)
(* or a price, or whose value is not numeric, is skipped without aborting  *)
(* the parse: the elements after it are still scanned, and the result is   *)
(* the result for the document without the skipped elements: the list of   *)
(* transactions, the total shares, the weighted price and the              *)
(* classification ('Sale' when every element coded 'P' is skipped).        *)
(***************************************************************************)
C11_SkippedContributesNothing ==
    (parsed /\ xml_content.well_formed) =>
        /\ summary = ParseForm4(WithoutSkipped)
        /\ Parseable =>
              /\ IsSummary
              /\ Len(summary.transactions) = Len(UsableElements)
              /\ \A i \in 1 .. Len(UsableElements) :
                     /\ summary.transactions[i].shares = UsableElements[i].shares.val
                     /\ summary.transactions[i].price_per_share = UsableElements[i].price.val
              /\ summary.shares = SumOfShares
              /\ (\A i \in 1 .. Len(UsableElements) : ~CodedP(UsableElements[i])) =>
                     summary.transaction_type = "Sale"

\* the only element coded 'P' has a share count that is not a number; the
\* element after it and a derivative element were scanned, and the filing is
\* a 'Sale'
C11_Witness ==
    /\ Parseable
    /\ Len(xml_content.nonDerivativeTransaction) = 2
    /\ CodedP(xml_content.nonDerivativeTransaction[1])
    /\ ~Usable(xml_content.nonDerivativeTransaction[1])
    /\ Len(xml_content.derivativeTransaction) = 1
    /\ Len(summary.transactions) = 2
    /\ summary.shares = 40
    /\ summary.transaction_type = "Sale"

(***************************************************************************)
(* C12: for a non-empty list of valid transactions the summary reports     *)
(* shares = the sum of their share counts, and price_per_share =           *)
(* sum(shares * price) / sum(shares) when the total is not zero, and 0     *)
(* when it is zero.                                                        *)
(***************************************************************************)
C12_SharesAndWeightedPrice ==
    Parseable =>
        /\ summary.shares = SumOfShares
        /\ IF SumOfShares # 0
              THEN summary.price_per_share.num * SumOfShares
                       = SumOfSharesTimesPrice * summary.price_per_share.den
              ELSE summary.price_per_share.num = 0

(***************************************************************************)
(* C13: the filing is a 'Purchase' when at least one valid transaction has *)
(* the code 'P', in any position, and a 'Sale' otherwise, also when every  *)
(* code is missing.                                                        *)
(***************************************************************************)
C13_PurchaseIfAnyP ==
    Parseable =>
        summary.transaction_type =
            IF \E i \in 1 .. Len(UsableElements) : CodedP(UsableElements[i])
               THEN "Purchase"
               ELSE "Sale"

\* the codes of the valid transactions are S, P
C13_Witness ==
    /\ Parseable
    /\ Len(UsableElements) = 2
    /\ "code" \in DOMAIN UsableElements[1] /\ UsableElements[1].code = "S"
    /\ CodedP(UsableElements[2])
    /\ summary.transaction_type = "Purchase"

(***************************************************************************)
(* C14: parse_form4_content never raises, malformed XML included: it       *)
(* returns a summary with the six keys, or a value whose only key is       *)
(* 'error', carrying a message; never a mix of the two.                    *)
(***************************************************************************)
C14_SummaryOrError ==
    parsed =>
        \/ IsSummary
        \/ /\ DOMAIN summary = {"error"}
           /\ summary.error \in {"No reporting owner found", "No transaction data found",
                                  "Failed to parse Form 4 content: "}

\* malformed XML gave the error value of the handler
C14_Witness ==
    /\ parsed /\ ~xml_content.well_formed
    /\ summary = [error |-> "Failed to parse Form 4 content: "]

(***************************************************************************)
(* What the claims say of a manifest, stated on the manifest.              *)
(***************************************************************************)
IsGrf == op = "get_recent_filings"

\* the manifest was fetched and has the object filings.recent
ManifestListed ==
    /\ submissions_url \in DOMAIN remote
    /\ remote[submissions_url].kind = "json"
    /\ remote[submissions_url].shape_ok
    /\ "filings" \in DOMAIN remote[submissions_url].body
    /\ remote[submissions_url].body.filings.recent # <<>>

Recent == remote[submissions_url].body.filings.recent

ArrayLen(key) == IF key \in DOMAIN Recent THEN Len(Recent[key]) ELSE 0

\* the positions of the manifest, and those present in all four arrays
Positions == 1 .. ArrayLen("form")

FullPositions ==
    { i \in Positions : /\ i <= ArrayLen("filingDate")
                        /\ i <= ArrayLen("accessionNumber")
                        /\ i <= ArrayLen("primaryDocument") }

FormAllowed(i) == \E j \in 1 .. Len(form_types) : form_types[j] = Recent.form[i]

DateOk(i) == i <= ArrayLen("filingDate") /\ Recent.filingDate[i].ok

\* the filing date, the midnight that opens its day, is at or after the
\* instant now - days_back
AtOrAfterCutoffInstant(i) ==
    \/ Recent.filingDate[i].day > dt_now.day - days_back
    \/ Recent.filingDate[i].day = dt_now.day - days_back /\ dt_now.secs = 0

Passes(i) == FormAllowed(i) /\ DateOk(i) /\ AtOrAfterCutoffInstant(i)

Returned == outcome.value.filings

IsReturned(i) ==
    \E j \in 1 .. Len(Returned) : Returned[j].accession_number = Recent.accessionNumber[i]

\* the positions that pass, in increasing order
RECURSIVE PassingFrom(_)
PassingFrom(i) ==
    IF i \notin Positions THEN <<>>
    ELSE IF Passes(i) THEN <<i>> \o PassingFrom(i + 1)
    ELSE PassingFrom(i + 1)

(***************************************************************************)
(* C15: get_recent_filings returns exactly the manifest positions i whose  *)
(* form[i] is in form_types and whose filingDate[i] is on or after         *)
(* now - days_back, in increasing order of i, each filing taking its form, *)
(* filing date, accession number and primary document from position i.     *)
(***************************************************************************)
C15_ExactlyThePassingPositions ==
    (IsGrf /\ Finished /\ ManifestListed) =>
        /\ outcome.kind = "return"
        /\ Len(Returned) = Len(PassingFrom(1))
        /\ \A j \in 1 .. Len(Returned) :
              LET i == PassingFrom(1)[j] IN
              /\ Returned[j].form = Recent.form[i]
              /\ Returned[j].filing_date.day = Recent.filingDate[i].day
              /\ Returned[j].accession_number = Recent.accessionNumber[i]
              /\ i <= ArrayLen("primaryDocument") =>
                    Returned[j].primary_document = Recent.primaryDocument[i]

(***************************************************************************)
(* C16: whatever the time of day of the call, an entry of an allowed form  *)
(* whose filing date is the calendar date of now - days_back is included,  *)
(* and one dated the day before is excluded.                               *)
(***************************************************************************)
C16_CutoffDayIncluded ==
    (IsGrf /\ Finished /\ ManifestListed /\ outcome.kind = "return") =>
        \A i \in FullPositions :
            (FormAllowed(i) /\ DateOk(i)) =>
                /\ Recent.filingDate[i].day = dt_now.day - days_back => IsReturned(i)
                /\ Recent.filingDate[i].day = dt_now.day - days_back - 1 => ~IsReturned(i)

(***************************************************************************)
(* C17: when an entry of the manifest has a malformed or missing filing    *)
(* date, the call does not fail: that entry is skipped and every other     *)
(* entry that passes the form-type and cutoff tests is returned.           *)
(***************************************************************************)
C17_BadDateSkipped ==
    (IsGrf /\ Finished /\ ManifestListed /\ \E i \in Positions : ~DateOk(i)) =>
        /\ outcome.kind = "return"
        /\ \A i \in FullPositions : Passes(i) => IsReturned(i)

(***************************************************************************)
(* C18: while get_filing_document scans a directory listing, an entry that *)
(* lacks a field (name or type) is skipped and the scan goes on over the   *)
(* remaining entries, in the Form 4 branch and in the generic branch: the  *)
(* call goes on to request a document, the first entry after the malformed *)
(* ones that matches when there is one.                                    *)
(***************************************************************************)
LacksField(e) == "name" \notin DOMAIN e \/ "type" \notin DOMAIN e

\* the entry has the fields the branch reads, and matches
UsableMatch(e) ==
    IF form_type = "4" THEN NamesForm4(e) ELSE "name" \in DOMAIN e /\ DeclaresOrHtm(e)

C18_MalformedEntrySkipped ==
    (IsGfd /\ Finished /\ IndexKnown /\ IndexListed
        /\ \E i \in 1 .. Len(Listed) : LacksField(Listed[i])) =>
        /\ Len(requests) >= 2
        /\ \A j \in 1 .. Len(Listed) :
              FirstWith(UsableMatch, j) => requests[2] = DocUrl(Listed[j].name)

(***************************************************************************)
(* C20: _load_company_mappings returns the in-memory mapping without       *)
(* reading the file exactly when a successful load happened less than      *)
(* 300 s (3 ticks) earlier; at 300 s or more since the latest successful   *)
(* load it reads the file again, and a successful read replaces the cached *)
(* mapping and sets the cache timestamp to the instant of that call.       *)
(***************************************************************************)
LoadedBefore == lcm.before_at >= 0

SinceLoad == lcm.time - lcm.before_at

ReadSucceeds == lcm.file.exists /\ lcm.file.json

C20_CacheWindow ==
    lcm_calls >= 1 =>
        /\ lcm.from_cache <=> (LoadedBefore /\ SinceLoad < 3)
        /\ lcm.from_cache => (~lcm.read /\ lcm.result = lcm.before)
        /\ (LoadedBefore /\ SinceLoad >= 3) => lcm.read
        /\ (lcm.read /\ ReadSucceeds) =>
              /\ cached_companies.set
              /\ cached_companies.value =
                    (IF "companies" \in DOMAIN lcm.file.data THEN lcm.file.data.companies ELSE <<>>)
              /\ lcm.result = cached_companies.value
              /\ last_cache_update = lcm.time

\* a load, a call 200 s later served from memory though the file had changed,
\* and a call 300 s after the load that read the new mapping
C20_Witness ==
    /\ lcm_calls = 3
    /\ lcm.before_at = 0 /\ lcm.time = 3
    /\ lcm.read /\ ReadSucceeds
    /\ lcm.before # lcm.result
    /\ last_cache_update = 3

(***************************************************************************)
(* C21: padding a company identifier to width 10 with leading zeros is     *)
(* idempotent: for every digit string id of at most 10 characters,         *)
(* pad(pad(id)) = pad(id), and pad(id) has exactly 10 digits and the       *)
(* numeric value of id.  The search pads the text typed (search_cik is     *)
(* pad(id)) and the client pads what it is given (the identifier of        *)
(* search_url is pad(pad(id))).                                            *)
(***************************************************************************)
\* the digits of s that carry its numeric value
RECURSIVE Significant(_)
Significant(s) == IF s # <<>> /\ Head(s) = "0" THEN Significant(Tail(s)) ELSE s

AllDigits(s) ==
    \A i \in 1 .. Len(s) : s[i] \in {"0", "1", "2", "3", "4", "5", "6", "7", "8", "9"}

IdTyped == company_search # <<>> /\ AllDigits(company_search) /\ Len(company_search) <= 10

C21_PadIdempotent ==
    (IdTyped /\ search_pc = "requested") =>
        /\ search_url[2] = search_cik
        /\ Len(search_cik) = 10
        /\ AllDigits(search_cik)
        /\ Significant(search_cik) = Significant(company_search)

\* "707" typed: padded to "0000000707" by the search and left so by the client
C21_Witness ==
    /\ search_pc = "requested"
    /\ company_search = <<"7","0","7">>
    /\ search_cik = <<"0","0","0","0","0","0","0","7","0","7">>
    /\ search_url[2] = search_cik

(***************************************************************************)
(* C22: every company identifier that the search of the dashboard passes   *)
(* to the client, and that the client places in an outbound URL, is digits *)
(* only and at most 10 characters long, for any text the user enters.      *)
(***************************************************************************)
C22_IdentifiersValid ==
    /\ search_pc \in {"searched", "requested"} =>
          (search_cik # <<>> /\ AllDigits(search_cik) /\ Len(search_cik) <= 10)
    /\ search_pc = "requested" =>
          (AllDigits(search_url[2]) /\ Len(search_url[2]) <= 10)

(***************************************************************************)
(* C23: extract_text_content never returns a null result: whenever the     *)
(* underlying extraction yields nothing it returns the sentinel string     *)
(* 'No readable content found', and otherwise it returns the extracted     *)
(* text unchanged.                                                         *)
(***************************************************************************)
C23_NeverNull ==
    readable_content.set =>
        /\ ~readable_content.none
        /\ extraction.none => readable_content.text = "No readable content found"
        /\ ~extraction.none => readable_content.text = extraction.text

\* a document was fetched, the extraction yielded None and the sentinel came back
C23_Witness ==
    /\ op = "get_filing_document" /\ outcome.kind = "return"
    /\ extraction.call = calls
    /\ extraction.none
    /\ readable_content = [set |-> TRUE, none |-> FALSE, text |-> "No readable content found"]

(***************************************************************************)
(* C24: within one call of get_filing_document no URL is requested more    *)
(* than once, whatever the index listing contains and whichever requests   *)
(* fail: a failed candidate is never requested again later in the same     *)
(* call.                                                                   *)
(***************************************************************************)
C24_NoUrlTwice ==
    IsGfd => \A i \in 1 .. Len(requests) : \A j \in 1 .. Len(requests) :
                i # j => requests[i] # requests[j]

(***************************************************************************)
(* C25: for form_type '4', when the index lists a matching file but the    *)
(* request for that file fails, get_filing_document does not end with that *)
(* error: it goes on to request the four fallback templates in their fixed *)
(* order, exactly as when the index lookup itself fails.                   *)
(***************************************************************************)
ListedFileFailed ==
    /\ IsGfd /\ form_type = "4" /\ IndexKnown /\ IndexListed /\ ~IndexLookupFailed
    /\ Len(requests) >= 2
    /\ remote[requests[2]].kind = "error"

C25_ListedFailureFallsBack ==
    ListedFileFailed =>
        LET after == SubSeq(requests, 3, Len(requests)) IN
        /\ Len(after) <= 4
        /\ \A i \in 1 .. Len(after) : after[i] = Templates[i]
        /\ \A i \in 1 .. Len(after) - 1 : remote[after[i]].kind = "error"
        /\ pc = "idle" =>
              /\ Len(after) >= 1
              /\ \/ /\ remote[Last(after)].kind = "text"
                    /\ outcome = [kind |-> "return", value |-> TextOf(Last(after))]
                 \/ /\ Len(after) = 4
                    /\ remote[Last(after)].kind = "error"
                    /\ outcome.kind = "raise"

\* the listed file failed, the first two templates failed and the third returned
C25_Witness ==
    /\ ListedFileFailed /\ pc = "idle"
    /\ requests[2] # Templates[1]
    /\ Len(requests) = 5
    /\ outcome = [kind |-> "return", value |-> TextOf(Templates[3])]

(***************************************************************************)
(* C26: for a form_type other than '4', when the index.json request fails  *)
(* or its body is malformed, get_filing_document ends with the error       *)
(* 'Failed to fetch document: ...' after exactly one outbound request; the *)
(* '<accession>.txt' fallback is requested only when the index was fetched *)
(* successfully and lists no matching entry.                               *)
(***************************************************************************)
TxtFallback == DocUrl(StripDashes(accession_number) \o <<".","t","x","t">>)

C26_IndexFailureEndsCall ==
    /\ (IsGfd /\ form_type # "4" /\ Finished /\ IndexKnown /\ ~IndexListed) =>
          /\ Len(requests) = 1
          /\ outcome.kind = "raise"
          /\ outcome.value.msg[1] = "Failed to fetch document: "
    /\ (IsGfd /\ form_type # "4" /\ \E i \in 1 .. Len(requests) : requests[i] = TxtFallback) =>
          /\ IndexListed
          /\ \A i \in 1 .. Len(Listed) : ~DeclaresOrHtm(Listed[i])

\* the index came back with a body that is not JSON and the call ended there
C26_Witness ==
    /\ IsGfd /\ form_type # "4" /\ Finished
    /\ remote[index_url].kind = "badjson"
    /\ requests = <<index_url>>
    /\ outcome.kind = "raise"

(***************************************************************************)
(* C27: get_recent_filings examines only the positions present in all four *)
(* parallel arrays form, filingDate, accessionNumber and primaryDocument:  *)
(* when their lengths differ, positions beyond the shortest array are      *)
(* dropped without any error, so a manifest whose primaryDocument array is *)
(* absent or empty yields an empty result even when matching filings       *)
(* exist.  An error comes only from a position that is examined.           *)
(***************************************************************************)
C27_OnlyFullPositions ==
    (IsGrf /\ Finished /\ ManifestListed) =>
        /\ outcome.kind = "return" =>
              \A j \in 1 .. Len(Returned) :
                 \E i \in FullPositions :
                    Returned[j].accession_number = Recent.accessionNumber[i]
        /\ outcome.kind = "raise" =>
              \E i \in FullPositions : FormAllowed(i) /\ ~DateOk(i)
        /\ ArrayLen("primaryDocument") = 0 =>
              outcome = [kind |-> "return", value |-> [filings |-> <<>>]]

\* a manifest without primaryDocument, one of whose filings passes the filter
\* and another of whose has a date that cannot be parsed: the result is empty
C27_Witness ==
    /\ IsGrf /\ Finished /\ ManifestListed
    /\ ArrayLen("primaryDocument") = 0
    /\ \E i \in Positions : Passes(i)
    /\ \E i \in Positions : FormAllowed(i) /\ ~DateOk(i)
    /\ outcome = [kind |-> "return", value |-> [filings |-> <<>>]]

(***************************************************************************)
(* C28: get_fortune500_companies returns exactly one Company per distinct  *)
(* CIK of its table for every pattern of remote failures: a failed lookup  *)
(* for one company does not abort or drop the others, the failed company   *)
(* is still returned with its local name, sic '' and industry 'Unknown',   *)
(* and the returned list is sorted by name.                                *)
(***************************************************************************)
KeptRows == 1 .. (IF MaxTable < Len(TableRows) THEN MaxTable ELSE Len(TableRows))

TableCiks == { TableRows[i].cik : i \in KeptRows }

\* the name the table gives a cik: that of the last row written for it
LocalName(c) ==
    TableRows[CHOOSE i \in KeptRows :
                 /\ TableRows[i].cik = c
                 /\ \A j \in KeptRows : TableRows[j].cik = c => j <= i].name

\* a <= b on strings, by code points
NotAfter(a, b) ==
    \/ Len(a) <= Len(b) /\ SubSeq(b, 1, Len(a)) = a
    \/ \E p \in 1 .. Len(a) :
          /\ p <= Len(b)
          /\ SubSeq(a, 1, p - 1) = SubSeq(b, 1, p - 1)
          /\ Ord(a[p]) < Ord(b[p])

C28_OneCompanyPerCik ==
    f5_result.done =>
        LET list == f5_result.value IN
        /\ Len(list) = Cardinality(TableCiks)
        /\ \A c \in TableCiks : \E i \in 1 .. Len(list) : list[i].cik = c
        /\ \A j \in 1 .. Len(f5_lookups) :
              f5_lookups[j].kind = "raise" =>
                 \E i \in 1 .. Len(list) :
                    list[i] = [cik |-> f5_lookups[j].cik, name |-> LocalName(f5_lookups[j].cik),
                               sic |-> "", industry |-> "Unknown"]
        /\ \A i \in 1 .. Len(list) : \A j \in i + 1 .. Len(list) :
              NotAfter(list[i].name, list[j].name)

\* the first lookup raised, the second brought a name in lower case that
\* moved its company to the end, and the cik written twice came back once
C28_Witness ==
    /\ f5_result.done
    /\ Len(f5_lookups) = 3
    /\ f5_lookups[1].kind = "raise"
    /\ f5_lookups[2].kind = "json" /\ f5_lookups[3].kind = "json"
    /\ Len(f5_result.value) = 3
    /\ f5_result.value[1].industry = "Unknown"
    /\ f5_result.value[3].cik = f5_lookups[2].cik
    /\ f5_result.value[3].name # LocalName(f5_lookups[2].cik)

(***************************************************************************)
(* C29: for a function wrapped by cache_data(ttl_seconds), a call made     *)
(* less than ttl_seconds (2 ticks) after a result was stored for the same  *)
(* function name and arguments returns the stored result without invoking  *)
(* the function; a call at or after ttl_seconds invokes the function and   *)
(* overwrites both the stored result and its timestamp; a call in which    *)
(* the function raises leaves the stored result and timestamp unchanged.   *)
(***************************************************************************)
ResultKey == <<"cache", "show_overview", memo.key>>

StampKey == <<"cache", "show_overview", memo.key, "timestamp">>

HadResult == ResultKey \in DOMAIN memo.before /\ StampKey \in DOMAIN memo.before

Age == memo.time - memo.before[StampKey]

C29_CacheDataWindow ==
    memo_calls >= 1 =>
        /\ (HadResult /\ Age < 2) =>
              /\ ~memo.invoked
              /\ memo.value = memo.before[ResultKey]
              /\ session_state = memo.before
        /\ (HadResult /\ Age >= 2) => memo.invoked
        /\ (memo.invoked /\ ~memo.raised) =>
              /\ session_state[ResultKey] = memo.value
              /\ session_state[StampKey] = memo.stored_at
              /\ memo.stored_at >= memo.time
              /\ \A key \in DOMAIN memo.before \ {ResultKey, StampKey} :
                    session_state[key] = memo.before[key]
        /\ memo.raised => session_state = memo.before

\* the third call came two ticks after a result had been stored at instant 0:
\* the function ran and its result and timestamp replaced the stored ones
C29_Witness ==
    /\ memo_calls = 3
    /\ HadResult /\ Age = 2
    /\ memo.before[StampKey] = 0
    /\ memo.invoked /\ ~memo.raised
    /\ memo.value # memo.before[ResultKey]
    /\ session_state[StampKey] = 2

(***************************************************************************)
(* C30: after any sequence of successful store_filing calls,               *)
(* Database.get_recent_filings(cik, limit) returns the filings stored for  *)
(* that cik, newest filing date first and at most limit of them; in        *)
(* particular a filing just stored for cik is visible to the next          *)
(* get_recent_filings(cik).                                                *)
(***************************************************************************)
StoredFor(c) == { i \in 1 .. Len(filings_table) : filings_table[i].company_cik = c }

C30_StoredFilingsVisible ==
    db_calls >= 1 =>
        LET rows == db_result.rows
            stored == StoredFor(db_result.cik)
        IN
        /\ ~db_result.none
        /\ Len(rows) = (IF Cardinality(stored) < db_result.limit
                           THEN Cardinality(stored) ELSE db_result.limit)
        /\ \A j \in 1 .. Len(rows) : \E i \in stored : rows[j] = filings_table[i]
        /\ \A j, l \in 1 .. Len(rows) : j < l =>
              /\ rows[j].id # rows[l].id
              /\ rows[j].filing_date >= rows[l].filing_date
        /\ \A i \in stored :
              (\A j \in 1 .. Len(rows) : rows[j] # filings_table[i]) =>
                 \A j \in 1 .. Len(rows) : rows[j].filing_date >= filings_table[i].filing_date

====
